---- MODULE Spec2Model ----
(***************************************************************************)
(* A model of the I-765 form tooling: the FieldMapper (profile <-> form    *)
(* data, dot-path traversal, value mapping, date formatting) and the       *)
(* PDFProcessor (template clone, field-name resolution, checkbox writes).  *)
(*                                                                         *)
(* JavaScript strings are sequences of one-character strings, so that the  *)
(* regular expressions, split, replace, includes and case conversions of   *)
(* the source are computed character by character.                         *)
(***************************************************************************)
EXTENDS Integers, Sequences, FiniteSets, TLC

VARIABLES
    store,      \* the object setNestedValue / getNestedValue work on
    op,         \* the last path operation: kind, path, value written, result read
    nOps,       \* number of writes made so far
    lenientEngine,    \* whether the engine's fallback date parser accepts loose text
    call,       \* the last call of a pure FieldMapper helper: fn, args, result
    applicantProfile, \* the ApplicantProfile (a nested object)
    config,     \* FieldMapper.config: the loaded schema
    mappedForm, \* the last result of mapProfileToForm: ResolvedFields in key order
    mapOp,      \* the last mapper call: kind, profile read, writes made, raised
    templatePDF,    \* PDFProcessor.templatePDF: "none" or the slot of the template
    docs,           \* the document objects in memory, by slot
    loadedTemplate, \* the template as loadTemplate left it
    calls,          \* the fillForm calls: position, arguments, locals, result
    nFills,         \* how many fillForm calls have returned
    both,           \* the generateBothVersions call: position, resolved fields, the two results
    fieldNames,     \* the last getFormFieldNames call: outcome and names returned
    rejected,       \* the operations that have failed for want of a template
    loader,         \* loadConfig: position, candidate in turn, the fetches made and how each ended
    scratch,        \* the createPDFFromScratch call: position, resolved fields, the document drawn
    localization,  \* the LocalizationManager: languages, missing keys, cache, stored preference
    translated, \* the last call of t: key, language and the text returned
    theProfile,  \* the ApplicantProfile p, as a JavaScript object of seven sections
    clock,  \* the wall clock, in seconds after 2025-12-09T00:00:00Z
    roundTrip,  \* the last export/import, while p is as exported: p, and the fresh profile q after q.fromJSON(p.toJSON())
    completion,  \* the last calculateCompletionPercentage call: the number returned and the one stored
    nEdits, \* the number of changes made to p
    loadedSchema,  \* the schema as it was loaded
    validated, \* the last validateSection call: its result, or that it raised
    fieldCheck, \* the last validateField call: its arguments and its result
    validity, \* the last validate call on the profile: the profile it read and its result
    langCall, \* the last setLanguage call: its argument, its return value and the listener calls it made
    swCaches,  \* the service worker caches: cache name -> path -> response
    swEvent,  \* the fetch event being answered
    swPuts,  \* the cache.put calls that have not landed yet
    swLog,  \* the cache writes made at fetch time, in order
    nEvents, \* fetch events so far
    detector,  \* the DeviceDetector: deviceType, orientation, listeners
    win,  \* the window: innerWidth, innerHeight
    timeMs,  \* the time in ms
    resizeTimeout,  \* the deadline of the pending resize timer, or NoTimer
    burst,  \* the resize events since the last detection and what the timer callback did
    nResizes  \* resize events so far

pathVars == <<store, op, nOps>>

pureVars == <<call>>

mapVars == <<applicantProfile, config, mappedForm, mapOp>>

fillVars == <<templatePDF, docs, loadedTemplate, calls, nFills>>

bothVars == <<both>>

namesVars == <<fieldNames, rejected>>

loadVars == <<loader>>

scratchVars == <<scratch>>

localeVars == <<localization, translated>>

profileVars == <<theProfile, clock, roundTrip, completion, nEdits>>

schemaVars == <<loadedSchema, validated>>

fieldVars == <<fieldCheck>>

validityVars == <<validity>>

listenVars == <<langCall>>

workerVars == <<swCaches, swEvent, swPuts, swLog, nEvents>>

detectorVars == <<detector, win, timeMs, resizeTimeout, burst, nResizes>>

vars == <<store, op, nOps, lenientEngine, call, applicantProfile, config, mappedForm, mapOp,
          templatePDF, docs, loadedTemplate, calls, nFills,
          both,
          fieldNames, rejected,
          loader,
          scratch,
          localization, translated,
          theProfile, clock, roundTrip, completion, nEdits,
          loadedSchema, validated,
          fieldCheck,
          validity,
          langCall,
          swCaches, swEvent, swPuts, swLog, nEvents,
          detector, win, timeMs, resizeTimeout, burst, nResizes>>

(***************************************************************************)
(* Bounds of the model.                                                    *)
(***************************************************************************)
MaxWrites == 2

\* fillForm calls followed to their return
MaxFills == 2

\* resolved fields handed to createPDFFromScratch
MaxLines == 35

\* the changes made to an ApplicantProfile in one run
MaxEdits == 2

\* the seconds the clock may advance in one run
MaxClock == 1

\* the listeners registered at a time are at most MaxListeners
MaxListeners == 3

\* fetch events followed
MaxEvents == 3

\* resize events followed
MaxResizes == 2

\* the last instant of the runs followed, in ms
MaxTime == 500

(***************************************************************************)
(* JavaScript values.  Every value is a record of the same shape:          *)
(*   t  the type tag, b  the boolean payload, s  the string payload (of a   *)
(*   number: its decimal text),                                            *)
(*   d  the calendar date of a Date object,                                *)
(*   m  the own properties of an object or array (key -> value),           *)
(*   o  the keys of m in insertion order (the order of Object.entries).    *)
(* An array is an object whose tag is "array"; its elements are the        *)
(* properties named by canonical decimal indices.                          *)
(***************************************************************************)
EmptyMap == [k \in {} |-> 0]

Undefined == [t |-> "undefined", b |-> FALSE, s |-> <<>>, d |-> <<>>, o |-> <<>>, m |-> EmptyMap]

Null == [t |-> "null", b |-> FALSE, s |-> <<>>, d |-> <<>>, o |-> <<>>, m |-> EmptyMap]

Bool(x) == [t |-> "boolean", b |-> x, s |-> <<>>, d |-> <<>>, o |-> <<>>, m |-> EmptyMap]

Str(x) == [t |-> "string", b |-> FALSE, s |-> x, d |-> <<>>, o |-> <<>>, m |-> EmptyMap]

\* a Date object; x is <<year, monthIndex, day>>, or <<>> for an Invalid Date
DateVal(x) == [t |-> "date", b |-> FALSE, s |-> <<>>, d |-> x, o |-> <<>>, m |-> EmptyMap]

\* the keys of a sequence of <<key, value>> pairs, in order
PairKeys(pairs) == [i \in 1..Len(pairs) |-> pairs[i][1]]

\* the properties a sequence of <<key, value>> pairs (distinct keys) defines
PairMap(pairs) ==
    [k \in {pairs[i][1] : i \in 1..Len(pairs)} |->
        pairs[CHOOSE i \in 1..Len(pairs) : pairs[i][1] = k][2]]

\* an object literal { k1: v1, k2: v2, ... }
Obj(pairs) ==
    [t |-> "object", b |-> FALSE, s |-> <<>>, d |-> <<>>,
     o |-> PairKeys(pairs), m |-> PairMap(pairs)]

\* an array whose own properties are the given pairs
Arr(pairs) ==
    [t |-> "array", b |-> FALSE, s |-> <<>>, d |-> <<>>,
     o |-> PairKeys(pairs), m |-> PairMap(pairs)]

\* the outcome of a call that raised a TypeError
ThrownMark == <<"T", "y", "p", "e", "E", "r", "r", "o", "r">>

Thrown == [t |-> "throw", b |-> FALSE, s |-> ThrownMark, d |-> <<>>, o |-> <<>>, m |-> EmptyMap]

EmptyObj == Obj(<<>>)

EmptyArr == Arr(<<>>)

IsArray(v) == v.t = "array"

IsNullish(v) == v.t \in {"undefined", "null"}

\* typeof v === 'object' (null included, as in JavaScript)
TypeofObject(v) == v.t \in {"object", "array", "null"}

\* ToBoolean(v)
Truthy(v) ==
    CASE v.t = "undefined" -> FALSE
      [] v.t = "null" -> FALSE
      [] v.t = "boolean" -> v.b
      [] v.t = "string" -> v.s # <<>>
      [] v.t = "number" -> v.s # <<"0">>
      [] OTHER -> TRUE

\* v[key]: own property lookup; a primitive has none of the modelled keys
GetProp(v, key) ==
    IF v.t \in {"object", "array"} /\ key \in DOMAIN v.m THEN v.m[key] ELSE Undefined

\* v[key] = val.  The class body is strict-mode code: the assignment on a
\* primitive changes nothing (and raises, see setNestedValueThrows).
PutProp(v, key, val) ==
    IF v.t \in {"object", "array"}
    THEN [v EXCEPT !.m = [k \in (DOMAIN v.m) \cup {key} |->
                             IF k = key THEN val ELSE v.m[k]],
                   !.o = IF key \in DOMAIN v.m THEN v.o ELSE Append(v.o, key)]
    ELSE v

(***************************************************************************)
(* Strings.                                                                *)
(***************************************************************************)
Digits == {"0", "1", "2", "3", "4", "5", "6", "7", "8", "9"}

\* part.match(/^\d+$/)
IsDigits(seg) == Len(seg) > 0 /\ \A i \in 1..Len(seg) : seg[i] \in Digits

\* String(parseInt(part, 10)) for a digit-only part: the property key that
\* current[index] reads and writes
RECURSIVE IndexKey(_)
IndexKey(seg) ==
    IF Len(seg) > 1 /\ Head(seg) = "0" THEN IndexKey(Tail(seg)) ELSE seg

\* path.split('.')
RECURSIVE SplitDots(_, _)
SplitDots(str, cur) ==
    IF str = <<>> THEN <<cur>>
    ELSE IF Head(str) = "." THEN <<cur>> \o SplitDots(Tail(str), <<>>)
    ELSE SplitDots(Tail(str), Append(cur, Head(str)))

Split(path) == SplitDots(path, <<>>)

Front(seq) == SubSeq(seq, 1, Len(seq) - 1)

Last(seq) == seq[Len(seq)]

\* the property key a path segment names when it is read as a key
StepKeyRaw(part) == IF IsDigits(part) THEN IndexKey(part) ELSE part

UpperLetters ==
    <<"A", "B", "C", "D", "E", "F", "G", "H", "I", "J", "K", "L", "M",
      "N", "O", "P", "Q", "R", "S", "T", "U", "V", "W", "X", "Y", "Z">>

LowerLetters ==
    <<"a", "b", "c", "d", "e", "f", "g", "h", "i", "j", "k", "l", "m",
      "n", "o", "p", "q", "r", "s", "t", "u", "v", "w", "x", "y", "z">>

LetterIndex(letters, c) == CHOOSE i \in 1..Len(letters) : letters[i] = c

\* the lower-case letter of each upper-case letter, and the other way round
Lowered == [c \in {UpperLetters[i] : i \in 1..Len(UpperLetters)} |->
               LowerLetters[LetterIndex(UpperLetters, c)]]

Uppered == [c \in {LowerLetters[i] : i \in 1..Len(LowerLetters)} |->
               UpperLetters[LetterIndex(LowerLetters, c)]]

IsUpper(c) == c \in DOMAIN Lowered

IsLower(c) == c \in DOMAIN Uppered

\* str.toLowerCase()
toLowerCase(str) ==
    [i \in 1..Len(str) |-> IF IsUpper(str[i]) THEN Lowered[str[i]] ELSE str[i]]

\* str.toUpperCase()
toUpperCase(str) ==
    [i \in 1..Len(str) |-> IF IsLower(str[i]) THEN Uppered[str[i]] ELSE str[i]]

\* hay.includes(needle)
includes(hay, needle) ==
    \E i \in 0..(Len(hay) - Len(needle)) : SubSeq(hay, i + 1, i + Len(needle)) = needle

IsAlnum(c) == IsUpper(c) \/ IsLower(c) \/ c \in Digits

\* str.replace(/[^a-zA-Z0-9]/g, '')
stripPunctuation(str) == SelectSeq(str, IsAlnum)

(***************************************************************************)
(* FieldMapper.getNestedValue (the FormValidator's copy is the same code). *)
(***************************************************************************)
\* a getNestedValue that reads a digit-only segment as an ordinary key
RECURSIVE GetWalkKeyed(_, _)
GetWalkKeyed(current, parts) ==
    IF parts = <<>> THEN current
    ELSE IF IsNullish(current) THEN Undefined
    ELSE GetWalkKeyed(GetProp(current, StepKeyRaw(Head(parts))), Tail(parts))

RECURSIVE GetWalk(_, _)
GetWalk(current, parts) ==
    IF parts = <<>> THEN current
    ELSE IF IsNullish(current) THEN Undefined
    ELSE IF IsDigits(Head(parts))
         THEN IF IsArray(current) /\ GetProp(current, IndexKey(Head(parts))).t # "undefined"
              THEN GetWalk(GetProp(current, IndexKey(Head(parts))), Tail(parts))
              ELSE Undefined
         ELSE GetWalk(GetProp(current, Head(parts)), Tail(parts))

getNestedValue(obj, path) ==
    IF path = <<>> \/ ~Truthy(obj) THEN Undefined ELSE GetWalk(obj, Split(path))

(***************************************************************************)
(* FieldMapper.setNestedValue.  SetWalk returns the container as the loop  *)
(* and the final assignment leave it.                                      *)
\* a loop step that always starts the container afresh
PreparedAfresh(current, part) == PutProp(current, part, EmptyObj)

(***************************************************************************)
\* the container after the "create if missing" statements of one loop step
Prepared(current, part) ==
    IF IsDigits(part)
    THEN LET c1 == IF ~IsArray(current) THEN PutProp(current, part, EmptyArr) ELSE current
         IN  IF ~Truthy(GetProp(c1, IndexKey(part)))
             THEN PutProp(c1, IndexKey(part), EmptyObj)
             ELSE c1
    ELSE IF ~Truthy(GetProp(current, part)) \/ ~TypeofObject(GetProp(current, part))
         THEN PutProp(current, part, EmptyObj)
         ELSE current

\* the key under which the loop step continues: current = current[...]
StepKey(part) == IF IsDigits(part) THEN IndexKey(part) ELSE part

RECURSIVE SetWalk(_, _, _, _)
SetWalk(current, parts, lastPart, value) ==
    IF parts = <<>> THEN PutProp(current, lastPart, value)
    ELSE LET c == Prepared(current, Head(parts))
             k == StepKey(Head(parts))
         IN  PutProp(c, k, SetWalk(GetProp(c, k), Tail(parts), lastPart, value))

setNestedValue(obj, path, value) ==
    IF path = <<>> \/ ~Truthy(obj) THEN obj
    ELSE SetWalk(obj, Front(Split(path)), Last(Split(path)), value)

\* TRUE when the write raises a TypeError: an assignment lands on a primitive
RECURSIVE SetWalkThrows(_, _)
SetWalkThrows(current, parts) ==
    IF current.t \notin {"object", "array"} THEN TRUE
    ELSE IF parts = <<>> THEN FALSE
    ELSE LET c == Prepared(current, Head(parts))
         IN  SetWalkThrows(GetProp(c, StepKey(Head(parts))), Tail(parts))

setNestedValueThrows(obj, path) ==
    IF path = <<>> \/ ~Truthy(obj) THEN FALSE
    ELSE SetWalkThrows(obj, Front(Split(path)))

(***************************************************************************)
(* Path operations on a profile-like object.                               *)
(***************************************************************************)
kA == <<"a">>

kN == <<"n">>

k0 == <<"0">>

sX == <<"x">>

sY == <<"y">>

\* "a", "a.n", "a.0", "a.0.n", "a.1.n", "0.n", "a.01.n", "n", ""
PathUniverse ==
    { <<"a">>,
      <<"a", ".", "n">>,
      <<"a", ".", "0">>,
      <<"a", ".", "0", ".", "n">>,
      <<"a", ".", "1", ".", "n">>,
      <<"0", ".", "n">>,
      <<"a", ".", "0", "1", ".", "n">>,
      <<"n">>,
      <<>> }

\* the values mapFormToProfile writes: parseValue returns a string or a boolean
WriteValues == { Str(sX), Str(<<>>), Bool(TRUE), Bool(FALSE) }

\* {}, {a: []}, {a: [{n: "y"}]}, {a: {n: "y"}}, {a: "y"}, {a: null}, {a: ["y"]}
InitialStores ==
    { EmptyObj,
      Obj(<< <<kA, EmptyArr>> >>),
      Obj(<< <<kA, Arr(<< <<k0, Obj(<< <<kN, Str(sY)>> >>)>> >>)>> >>),
      Obj(<< <<kA, Obj(<< <<kN, Str(sY)>> >>)>> >>),
      Obj(<< <<kA, Str(sY)>> >>),
      Obj(<< <<kA, Null>> >>),
      Obj(<< <<kA, Arr(<< <<k0, Str(sY)>> >>)>> >>) }

\* C4: after setNestedValue(obj, path, v), getNestedValue(obj, path) returns v,
\* for every dot path, digit-only segments under missing containers included.
C4_WriteThenReadAgrees ==
    (op.kind = "set" /\ op.path # <<>> /\ ~op.threw)
        => getNestedValue(store, op.path) = op.val

\* C4 (case): a write through a digit-only segment whose container was missing
C4_MissingContainerWritten ==
    /\ op.kind = "set"
    /\ op.path = <<"a", ".", "1", ".", "n">>
    /\ ~op.threw
    /\ GetProp(store, kA).t = "object"

\* The rule C5 states for one segment read against one container.
C5_Step(container, seg) ==
    IF IsDigits(seg)
    THEN IF /\ container.t = "array"
            /\ IndexKey(seg) \in DOMAIN container.m
            /\ container.m[IndexKey(seg)].t # "undefined"
         THEN container.m[IndexKey(seg)]
         ELSE Undefined
    ELSE IF container.t \in {"object", "array"} /\ seg \in DOMAIN container.m
         THEN container.m[seg]
         ELSE Undefined

\* the containers met along segs[1..i], or "absent" once one is missing
RECURSIVE C5_Resolve(_, _, _)
C5_Resolve(obj, segs, i) ==
    IF i = 0 THEN obj
    ELSE LET before == C5_Resolve(obj, segs, i - 1)
         IN  IF before.t \in {"undefined", "null"} THEN Undefined
             ELSE C5_Step(before, segs[i])

\* C5: getNestedValue reads a digit-only segment as a sequence index (the
\* element when the container is an array with a defined element there,
\* undefined otherwise, never an error) and any other segment as a key.
C5_DigitSegmentsAreIndices ==
    (op.kind = "get" /\ op.path # <<>>)
        => op.res = C5_Resolve(store, Split(op.path), Len(Split(op.path)))

\* C5 (case): a digit-only segment resolved against an array element
C5_IndexRead ==
    /\ op.kind = "get"
    /\ op.path = <<"a", ".", "0", ".", "n">>
    /\ op.res = Str(sY)

\* C5 (case): a digit-only segment against a keyed container reads undefined
\* although the container has a property of that name
C5_IndexOnObjectRead ==
    /\ op.kind = "get"
    /\ op.path = <<"a", ".", "0">>
    /\ GetProp(store, kA).t = "object"
    /\ k0 \in DOMAIN GetProp(store, kA).m
    /\ op.res = Undefined

(***************************************************************************)
(* String literals and conversions used by the FieldMapper.                *)
(***************************************************************************)
sTrue == <<"t", "r", "u", "e">>

sFalse == <<"f", "a", "l", "s", "e">>

sNull == <<"n", "u", "l", "l">>

sUndefined == <<"u", "n", "d", "e", "f", "i", "n", "e", "d">>

sObject == <<"[", "o", "b", "j", "e", "c", "t", " ", "O", "b", "j", "e", "c", "t", "]">>

sChecked == <<"c", "h", "e", "c", "k", "e", "d">>

sMark == <<"X">>

DigitChars == <<"0", "1", "2", "3", "4", "5", "6", "7", "8", "9">>

DigitVal(c) == (CHOOSE i \in 1..10 : DigitChars[i] = c) - 1

\* Number(str) for a digit-only string
RECURSIVE ToNum(_)
ToNum(str) ==
    IF str = <<>> THEN 0 ELSE 10 * ToNum(Front(str)) + DigitVal(Last(str))

\* String(n) for a natural number
RECURSIVE NumStr(_)
NumStr(n) ==
    IF n < 10 THEN <<DigitChars[n + 1]>>
    ELSE Append(NumStr(n \div 10), DigitChars[(n % 10) + 1])

\* a natural number: the payload is its decimal text
Num(n) == [t |-> "number", b |-> FALSE, s |-> NumStr(n), d |-> <<>>, o |-> <<>>, m |-> EmptyMap]

\* str.padStart(2, '0')
PadStart2(str) == IF Len(str) < 2 THEN <<"0">> \o str ELSE str

\* the Date object's own text form is not modelled further than a marker
sDateText == <<"D", "a", "t", "e">>

\* String(v); an array joins the text of its elements "0", "1", ... with commas
RECURSIVE JsString(_)
RECURSIVE JoinFrom(_, _)
JoinFrom(arr, i) ==
    IF NumStr(i) \notin DOMAIN arr.m THEN <<>>
    ELSE (IF i > 0 THEN <<",">> ELSE <<>>)
         \o (IF IsNullish(arr.m[NumStr(i)]) THEN <<>> ELSE JsString(arr.m[NumStr(i)]))
         \o JoinFrom(arr, i + 1)

JsString(v) ==
    CASE v.t = "undefined" -> sUndefined
      [] v.t = "null" -> sNull
      [] v.t = "boolean" -> IF v.b THEN sTrue ELSE sFalse
      [] v.t = "string" -> v.s
      [] v.t = "number" -> v.s
      [] v.t = "array" -> JoinFrom(v, 0)
      [] v.t = "date" -> sDateText
      [] OTHER -> sObject

\* a === b for primitives; two object references met here are never the same
StrictEq(a, b) ==
    /\ a.t = b.t
    /\ a.t \in {"undefined", "null", "boolean", "string", "number"}
    /\ a.b = b.b
    /\ a.s = b.s

(***************************************************************************)
(* Dates.  A calendar date is <<year, monthIndex, day>>; <<>> is the       *)
(* Invalid Date (getTime() is NaN).                                        *)
(***************************************************************************)
InvalidDate == <<>>

IsLeap(y) == (y % 4 = 0 /\ y % 100 # 0) \/ y % 400 = 0

DaysIn(y, mi) ==
    CASE mi \in {0, 2, 4, 6, 7, 9, 11} -> 31
      [] mi \in {3, 5, 8, 10} -> 30
      [] OTHER -> IF IsLeap(y) THEN 29 ELSE 28

\* day-of-month overflow and underflow carried into the month and the year
RECURSIVE NormDay(_, _, _)
NormDay(y, mi, d) ==
    IF d < 1
    THEN LET pm == IF mi = 0 THEN 11 ELSE mi - 1
             py == IF mi = 0 THEN y - 1 ELSE y
         IN  NormDay(py, pm, d + DaysIn(py, pm))
    ELSE IF d > DaysIn(y, mi)
    THEN LET nm == IF mi = 11 THEN 0 ELSE mi + 1
             ny == IF mi = 11 THEN y + 1 ELSE y
         IN  NormDay(ny, nm, d - DaysIn(y, mi))
    ELSE <<y, mi, d>>

\* new Date(year, monthIndex, day): a year 0..99 means 1900 + year
NewDate(year, monthIndex, day) ==
    LET y0 == IF year \in 0..99 THEN 1900 + year ELSE year
    IN  NormDay(y0 + (monthIndex \div 12), monthIndex % 12, day)

\* date.match(/^\d{4}-\d{2}-\d{2}$/)
IsIsoShape(str) ==
    /\ Len(str) = 10
    /\ str[5] = "-" /\ str[8] = "-"
    /\ \A i \in {1, 2, 3, 4, 6, 7, 9, 10} : str[i] \in Digits

\* date.match(/^\d{2}\/\d{2}\/\d{4}$/)
IsUsShape(str) ==
    /\ Len(str) = 10
    /\ str[3] = "/" /\ str[6] = "/"
    /\ \A i \in {1, 2, 4, 5, 7, 8, 9, 10} : str[i] \in Digits

HasDigit(str) == \E i \in 1..Len(str) : str[i] \in Digits

\* new Date(str) for a string of neither shape.  The engine's fallback parser
\* is implementation-defined: a string without any digit is never a date; a
\* string with a digit is a date only to a lenient engine.
LenientDate == <<2001, 0, 1>>

ParseDateString(str, lenient) ==
    IF HasDigit(str) /\ lenient THEN LenientDate ELSE InvalidDate

\* `${month}/${day}/${year}` of a valid date
UsText(date) ==
    PadStart2(NumStr(date[2] + 1)) \o <<"/">> \o PadStart2(NumStr(date[3]))
        \o <<"/">> \o NumStr(date[1])

\* `${year}-${month}-${day}` of a valid date
IsoText(date) ==
    NumStr(date[1]) \o <<"-">> \o PadStart2(NumStr(date[2] + 1))
        \o <<"-">> \o PadStart2(NumStr(date[3]))

\* a formatDate that passes the month number, not the month index, to Date
formatDateMonthOff(date, lenient) ==
    IF ~Truthy(date) THEN <<>>
    ELSE LET dateObj ==
                 IF date.t = "date" THEN date.d
                 ELSE IF IsIsoShape(date.s)
                      THEN NewDate(ToNum(SubSeq(date.s, 1, 4)),
                                   ToNum(SubSeq(date.s, 6, 7)),
                                   ToNum(SubSeq(date.s, 9, 10)))
                      ELSE ParseDateString(date.s, lenient)
         IN  IF date.t \notin {"date", "string"} THEN <<>>
             ELSE IF date.t = "string" /\ ~IsIsoShape(date.s) /\ IsUsShape(date.s)
                  THEN date.s
             ELSE IF dateObj = InvalidDate THEN <<>>
             ELSE UsText(dateObj)

\* FieldMapper.formatDate
formatDate(date, lenient) ==
    IF ~Truthy(date) THEN <<>>
    ELSE LET dateObj ==
                 IF date.t = "date" THEN date.d
                 ELSE IF IsIsoShape(date.s)
                      THEN NewDate(ToNum(SubSeq(date.s, 1, 4)),
                                   ToNum(SubSeq(date.s, 6, 7)) - 1,
                                   ToNum(SubSeq(date.s, 9, 10)))
                      ELSE ParseDateString(date.s, lenient)
         IN  IF date.t \notin {"date", "string"} THEN <<>>
             ELSE IF date.t = "string" /\ ~IsIsoShape(date.s) /\ IsUsShape(date.s)
                  THEN date.s
             ELSE IF dateObj = InvalidDate THEN <<>>
             ELSE UsText(dateObj)

\* FieldMapper.parseDate; a non-string argument has no match method
parseDate(dateStr, lenient) ==
    IF ~Truthy(dateStr) THEN Str(<<>>)
    ELSE IF dateStr.t # "string" THEN Thrown
    ELSE IF IsUsShape(dateStr.s)
         THEN Str(SubSeq(dateStr.s, 7, 10) \o <<"-">> \o SubSeq(dateStr.s, 1, 2)
                    \o <<"-">> \o SubSeq(dateStr.s, 4, 5))
    ELSE IF IsIsoShape(dateStr.s) THEN dateStr
    ELSE IF ParseDateString(dateStr.s, lenient) # InvalidDate
         THEN Str(IsoText(ParseDateString(dateStr.s, lenient)))
    ELSE Str(<<>>)

(***************************************************************************)
(* FieldMapper: value mapping, formatting, parsing.                        *)
(***************************************************************************)
\* an applyValueMapping whose checkbox rule fires for every truthy value
applyValueMappingLoose(value, mapping) ==
    IF mapping.t = "null" THEN Thrown
    ELSE IF TypeofObject(mapping)
    THEN IF GetProp(mapping, sChecked).t # "undefined" /\ Truthy(value)
         THEN GetProp(mapping, sChecked)
         ELSE IF GetProp(mapping, JsString(value)).t # "undefined"
              THEN GetProp(mapping, JsString(value))
              ELSE value
    ELSE value

\* FieldMapper.applyValueMapping; mapping[value] looks the value up by its
\* string form, as every property key is a string
applyValueMapping(value, mapping) ==
    IF mapping.t = "null" THEN Thrown
    ELSE IF TypeofObject(mapping)
    THEN IF GetProp(mapping, sChecked).t # "undefined" /\ StrictEq(value, Bool(TRUE))
         THEN GetProp(mapping, sChecked)
         ELSE IF GetProp(mapping, JsString(value)).t # "undefined"
              THEN GetProp(mapping, JsString(value))
              ELSE value
    ELSE value

\* FieldMapper.formatValue
formatValue(value, type, lenient) ==
    IF IsNullish(value) THEN Str(<<>>)
    ELSE CASE type = "Date Input" -> Str(formatDate(value, lenient))
           [] type = "Checkbox" ->
                  IF StrictEq(value, Bool(TRUE)) \/ StrictEq(value, Str(sTrue))
                  THEN Str(sMark) ELSE Str(<<>>)
           [] OTHER -> Str(JsString(value))

\* FieldMapper.reverseValueMapping: the first entry, in insertion order, whose
\* target is the value
RECURSIVE ReverseFrom(_, _, _)
ReverseFrom(value, mapping, i) ==
    IF i > Len(mapping.o) THEN value
    ELSE IF StrictEq(mapping.m[mapping.o[i]], value)
         THEN IF mapping.o[i] = sChecked THEN Bool(TRUE) ELSE Str(mapping.o[i])
         ELSE ReverseFrom(value, mapping, i + 1)

reverseValueMapping(value, mapping) ==
    IF TypeofObject(mapping) THEN ReverseFrom(value, mapping, 1) ELSE value

\* FieldMapper.parseValue
parseValue(value, type, lenient) ==
    IF IsNullish(value) \/ StrictEq(value, Str(<<>>))
    THEN IF type = "Checkbox" THEN Bool(FALSE) ELSE Str(<<>>)
    ELSE CASE type = "Checkbox" ->
                  Bool(StrictEq(value, Str(sMark)) \/ StrictEq(value, Bool(TRUE))
                         \/ StrictEq(value, Str(sTrue)))
           [] type = "Date Input" -> parseDate(value, lenient)
           [] OTHER -> Str(JsString(value))

(***************************************************************************)
(* The schema.  A FieldDescriptor is                                       *)
(*   [field_id, data_path, pdf_field_name, item_number, type,              *)
(*    value_mapping]; an absent string attribute is the empty string and   *)
(* an absent value_mapping is Undefined.  A config is                      *)
(*   [loaded, parts], parts a sequence of [hasFields, fields].             *)
(***************************************************************************)
Desc(id, path, pdfName, item, type, mapping) ==
    [field_id |-> id, data_path |-> path, pdf_field_name |-> pdfName,
     item_number |-> item, type |-> type, value_mapping |-> mapping]

\* the descriptors the loops of mapProfileToForm / mapFormToProfile visit
RECURSIVE AllFields(_)
AllFields(parts) ==
    IF parts = <<>> THEN <<>>
    ELSE (IF Head(parts).hasFields THEN Head(parts).fields ELSE <<>>)
         \o AllFields(Tail(parts))

\* an inclusion rule that takes no account of the descriptor's type
shouldIncludeValueOnly(value, type) ==
    ~IsNullish(value) /\ ~StrictEq(value, Str(<<>>))

\* an inclusion rule that lets every descriptor in
shouldIncludeAll(value, type) == TRUE

\* mapProfileToForm: shouldInclude
shouldInclude(value, type) ==
    \/ ~IsNullish(value) /\ ~StrictEq(value, Str(<<>>))
    \/ type = "Checkbox"
    \/ type = "Radio"

\* a || b || c on strings
FirstNonEmpty(a, b, c) == IF a # <<>> THEN a ELSE IF b # <<>> THEN b ELSE c

\* formData[fieldId] = entry: a new key goes last, an old key keeps its place
FormSet(formData, entry) ==
    IF \E i \in 1..Len(formData) : formData[i].fieldId = entry.fieldId
    THEN [i \in 1..Len(formData) |->
             IF formData[i].fieldId = entry.fieldId THEN entry ELSE formData[i]]
    ELSE Append(formData, entry)

\* the ResolvedField of one included descriptor
Resolved(field, value, lenient) ==
    [fieldId |-> field.field_id,
     value |-> formatValue(IF Truthy(field.value_mapping)
                           THEN applyValueMapping(value, field.value_mapping)
                           ELSE value,
                           field.type, lenient),
     pdfFieldName |-> FirstNonEmpty(field.pdf_field_name, field.item_number, field.field_id),
     field |-> field,
     originalValue |-> value]

RECURSIVE MapFields(_, _, _, _)
MapFields(fields, profile, lenient, formData) ==
    IF fields = <<>> THEN formData
    ELSE LET field == Head(fields)
             value == getNestedValue(profile, field.data_path)
         IN  IF field.field_id = <<>> \/ field.data_path = <<>>
             THEN MapFields(Tail(fields), profile, lenient, formData)
             ELSE IF shouldInclude(value, field.type)
             THEN MapFields(Tail(fields), profile, lenient,
                            FormSet(formData, Resolved(field, value, lenient)))
             ELSE MapFields(Tail(fields), profile, lenient, formData)

\* FieldMapper.mapProfileToForm
mapProfileToForm(cfg, profile, lenient) ==
    IF ~cfg.loaded THEN <<>>
    ELSE MapFields(AllFields(cfg.parts), profile, lenient, <<>>)

\* formData[fieldId]: the entry, or none
HasEntry(formData, fieldId) == \E i \in 1..Len(formData) : formData[i].fieldId = fieldId

EntryOf(formData, fieldId) ==
    formData[CHOOSE i \in 1..Len(formData) : formData[i].fieldId = fieldId]

\* the value mapFormToProfile computes for one descriptor
BackValue(field, fieldData, lenient) ==
    parseValue(IF Truthy(field.value_mapping)
               THEN reverseValueMapping(fieldData.value, field.value_mapping)
               ELSE fieldData.value,
               field.type, lenient)

\* the loop of mapFormToProfile; acc = [profile, writes, threw].  A raised
\* TypeError ends the loop with the writes made so far in place.
RECURSIVE BackFields(_, _, _, _)
BackFields(fields, formData, lenient, acc) ==
    IF fields = <<>> \/ acc.threw THEN acc
    ELSE LET field == Head(fields)
         IN  IF \/ field.field_id = <<>> \/ field.data_path = <<>>
                \/ ~HasEntry(formData, field.field_id)
             THEN BackFields(Tail(fields), formData, lenient, acc)
             ELSE LET fieldData == EntryOf(formData, field.field_id)
                      value == BackValue(field, fieldData, lenient)
                  IN  IF fieldData.value.t = "undefined"
                      THEN BackFields(Tail(fields), formData, lenient, acc)
                      ELSE IF value.t = "throw"
                      THEN [acc EXCEPT !.threw = TRUE]
                      ELSE IF setNestedValueThrows(acc.profile, field.data_path)
                      THEN [acc EXCEPT !.threw = TRUE,
                                       !.profile = setNestedValue(acc.profile,
                                                                  field.data_path, value)]
                      ELSE BackFields(Tail(fields), formData, lenient,
                             [profile |-> setNestedValue(acc.profile, field.data_path, value),
                              writes |-> Append(acc.writes,
                                                [fieldId |-> field.field_id,
                                                 path |-> field.data_path,
                                                 value |-> value]),
                              threw |-> FALSE])

\* FieldMapper.mapFormToProfile
mapFormToProfile(cfg, formData, profile, lenient) ==
    IF ~cfg.loaded THEN [profile |-> profile, writes |-> <<>>, threw |-> FALSE]
    ELSE BackFields(AllFields(cfg.parts), formData, lenient,
                    [profile |-> profile, writes |-> <<>>, threw |-> FALSE])

(***************************************************************************)
(* Values, value mappings, profiles and schemas the model draws from.      *)
(***************************************************************************)
sH1B == <<"H", "-", "1", "B">>

sH1BCode == <<"h", "1", "b", "_", "c", "o", "d", "e">>

sOther == <<"o", "t", "h", "e", "r">>

sYes == <<"Y">>

sNo == <<"N">>

\* "2025-01-15", "2024-02-29", "1999-12-31": valid ISO dates
sIso1 == <<"2", "0", "2", "5", "-", "0", "1", "-", "1", "5">>

sIsoLeap == <<"2", "0", "2", "4", "-", "0", "2", "-", "2", "9">>

sIsoOld == <<"1", "9", "9", "9", "-", "1", "2", "-", "3", "1">>

\* "2025-02-30": of the ISO shape, not a calendar date
sIsoBad == <<"2", "0", "2", "5", "-", "0", "2", "-", "3", "0">>

\* "01/15/2025"
sUs1 == <<"0", "1", "/", "1", "5", "/", "2", "0", "2", "5">>

\* { "H-1B": "h1b_code", checked: "X" }
MapStatus == Obj(<< <<sH1B, Str(sH1BCode)>>, <<sChecked, Str(sMark)>> >>)

\* { checked: "X" }
MapChecked == Obj(<< <<sChecked, Str(sMark)>> >>)

\* { "true": "Y", "false": "N" }
MapYesNo == Obj(<< <<sTrue, Str(sYes)>>, <<sFalse, Str(sNo)>> >>)

\* { "H-1B": "", "other": "Y" }
MapBlank == Obj(<< <<sH1B, Str(<<>>)>>, <<sOther, Str(sYes)>> >>)

Mappings == { MapStatus, MapChecked, MapYesNo, MapBlank, Str(sOther) }

\* the arguments applyValueMapping is tried on
MappedValues ==
    { Undefined, Null, Bool(TRUE), Bool(FALSE), Str(<<>>), Str(sTrue), Str(sFalse),
      Str(sH1B), Str(sOther), Str(sMark), Str(sChecked) }

\* the arguments formatDate is tried on
DateArguments ==
    { Undefined, Null, Bool(TRUE), Str(<<>>), Str(sIso1), Str(sIsoLeap), Str(sIsoOld),
      Str(sIsoBad), Str(sUs1), Str(sOther), Str(sH1B), EmptyObj,
      DateVal(<<2025, 0, 15>>), DateVal(InvalidDate) }

\* the values a profile leaf holds; Undefined stands for a missing property
LeafValues ==
    { Undefined, Null, Bool(TRUE), Bool(FALSE), Str(<<>>), Str(sTrue), Str(sH1B),
      Str(sOther), Str(sMark), Str(sIso1), Str(sIsoLeap), Str(sIsoBad), Str(sUs1) }

kP == <<"p">>

kV == <<"v">>

kW == <<"w">>

\* "p.v", "p.w"
pathV == <<"p", ".", "v">>

pathW == <<"p", ".", "w">>

\* the pairs of the present leaves
LeafPairs(v, w) ==
    (IF v.t = "undefined" THEN <<>> ELSE << <<kV, v>> >>)
        \o (IF w.t = "undefined" THEN <<>> ELSE << <<kW, w>> >>)

\* { p: { v: ..., w: ... } }
ProfileOf(v, w) == Obj(<< <<kP, Obj(LeafPairs(v, w))>> >>)

Profiles == { ProfileOf(v, w) : v \in LeafValues, w \in LeafValues }

f1 == <<"f", "1">>

f2 == <<"f", "2">>

f3 == <<"f", "3">>

\* declared PDF field names and item numbers: "1.a.", "status", "27."
n1a == <<"1", ".", "a", ".">>

nStatus == <<"s", "t", "a", "t", "u", "s">>

n27 == <<"2", "7", ".">>

OnePart(fields) == [loaded |-> TRUE, parts |-> << [hasFields |-> TRUE, fields |-> fields] >>]

NoConfig == [loaded |-> FALSE, parts |-> <<>>]

Schemas ==
    { OnePart(<< Desc(f1, pathV, nStatus, <<>>, "Text Input", Undefined),
                 Desc(f2, pathW, n1a, <<>>, "Checkbox", Undefined) >>),
      OnePart(<< Desc(f1, pathV, <<>>, n27, "Date Input", Undefined),
                 Desc(f2, pathW, <<>>, <<>>, "Radio", Undefined) >>),
      OnePart(<< Desc(f1, pathV, nStatus, <<>>, "Text Input", MapStatus),
                 Desc(f2, pathW, n1a, <<>>, "Checkbox", MapChecked) >>),
      OnePart(<< Desc(f1, pathV, nStatus, <<>>, "Text Input", MapBlank),
                 Desc(f2, pathW, n1a, <<>>, "Radio", MapYesNo) >>),
      [loaded |-> TRUE,
       parts |-> << [hasFields |-> FALSE, fields |-> <<>>],
                    [hasFields |-> TRUE,
                     fields |-> << Desc(<<>>, pathV, nStatus, <<>>, "Checkbox", Undefined),
                                   Desc(f2, <<>>, n1a, <<>>, "Radio", Undefined),
                                   Desc(f3, pathW, <<>>, <<>>, "Date Input", Undefined) >>] >>],
      NoConfig }

(***************************************************************************)
(* FieldMapper.loadConfig: the candidate locations are fetched in turn.    *)
(* The loader is [pc, i, log]: pc is "fetching" (await fetch(path)),       *)
(* "parsing" (await response.json()), "done" or "raised"; i is the         *)
(* candidate in turn; log lists the fetches made, each with its outcome.   *)
(***************************************************************************)
paths == << "./core/i765-config.json", "../core/i765-config.json", "core/i765-config.json" >>

\* this.config = { parts: [] }
EmptyConfig == [loaded |-> TRUE, parts |-> <<>>]

Fetch(i) == [path |-> paths[i], outcome |-> "pending"]

\* the constructor's loadConfig() up to its first await: a config passed in
\* is kept, otherwise the first candidate is fetched
LoadStart(cfg) ==
    IF cfg.loaded THEN [pc |-> "done", i |-> 0, log |-> <<>>]
    ELSE [pc |-> "fetching", i |-> 1, log |-> << Fetch(1) >>]

Settled(ld, outcome) == [ld EXCEPT !.log[Len(ld.log)].outcome = outcome]

\* a loadConfig without the outer catch
CandidateFailedRaises(ld, cfg, outcome) ==
    IF ld.i < Len(paths)
    THEN [loader |-> [Settled(ld, outcome) EXCEPT !.pc = "fetching", !.i = ld.i + 1,
                                                  !.log = Append(@, Fetch(ld.i + 1))],
          config |-> cfg]
    ELSE [loader |-> [Settled(ld, outcome) EXCEPT !.pc = "raised"], config |-> cfg]

\* the candidate in turn failed: the next one is fetched, and after the last
\* one the error is caught and the empty schema is set
CandidateFailed(ld, cfg, outcome) ==
    IF ld.i < Len(paths)
    THEN [loader |-> [Settled(ld, outcome) EXCEPT !.pc = "fetching", !.i = ld.i + 1,
                                                  !.log = Append(@, Fetch(ld.i + 1))],
          config |-> cfg]
    ELSE [loader |-> [Settled(ld, outcome) EXCEPT !.pc = "done"], config |-> EmptyConfig]

\* what response.json() can resolve to: a schema object, or null
JsonBodies == Schemas

LoaderProfiles == { EmptyObj, ProfileOf(Str(sOther), Bool(TRUE)), ProfileOf(Str(sIso1), Null) }

(***************************************************************************)
(* ApplicantProfile (data-models.js).  A profile is a JavaScript object of *)
(* seven sections.  The clock counts seconds after 2025-12-09T00:00:00Z,   *)
(* fewer than ten, so that the texts of toISOString() and Date.now() are   *)
(* one digit apart.                                                        *)
(***************************************************************************)
\* new Date().toISOString()
IsoInstant(now) == <<"2", "0", "2", "5", "-", "1", "2", "-", "0", "9", "T", "0", "0", ":", "0", "0", ":", "0">> \o NumStr(now) \o <<".", "0", "0", "0", "Z">>

\* _generateApplicationId(): `APP-${Date.now()}-${random}`.toUpperCase(),
\* random the seven base-36 digits taken from Math.random()
ApplicationId(now, random) ==
    toUpperCase(<<"A", "P", "P", "-", "1", "7", "6", "5", "2", "3", "8", "4", "0">> \o NumStr(now) \o <<"0", "0", "0", "-">> \o random)

\* values of Math.random().toString(36).substring(2, 9)
Randoms == {<<"k", "3", "j", "9", "x", "2", "a">>, <<"0", "q", "7", "z", "z", "1", "m">>}

\* this.personalInfo of the constructor
DefaultPersonalInfo ==
    Obj(<<
       <<<<"f", "i", "r", "s", "t", "N", "a", "m", "e">>, Str(<<>>)>>,
       <<<<"m", "i", "d", "d", "l", "e", "N", "a", "m", "e">>, Str(<<>>)>>,
       <<<<"l", "a", "s", "t", "N", "a", "m", "e">>, Str(<<>>)>>,
       <<<<"d", "a", "t", "e", "O", "f", "B", "i", "r", "t", "h">>, Str(<<>>)>>,
       <<<<"g", "e", "n", "d", "e", "r">>, Str(<<>>)>>,
       <<<<"c", "i", "t", "i", "z", "e", "n", "s", "h", "i", "p">>, Str(<<>>)>>,
       <<<<"p", "a", "s", "s", "p", "o", "r", "t">>, Obj(<<
              <<<<"n", "u", "m", "b", "e", "r">>, Str(<<>>)>>,
              <<<<"i", "s", "s", "u", "a", "n", "c", "e", "C", "o", "u", "n", "t", "r", "y">>, Str(<<>>)>>,
              <<<<"e", "x", "p", "i", "r", "a", "t", "i", "o", "n", "D", "a", "t", "e">>, Str(<<>>)>> >>)>>,
       <<<<"c", "o", "n", "t", "a", "c", "t">>, Obj(<<
              <<<<"e", "m", "a", "i", "l">>, Str(<<>>)>>,
              <<<<"p", "h", "o", "n", "e", "N", "u", "m", "b", "e", "r">>, Str(<<>>)>>,
              <<<<"a", "d", "d", "r", "e", "s", "s">>, Obj(<<
                     <<<<"s", "t", "r", "e", "e", "t">>, Str(<<>>)>>,
                     <<<<"c", "i", "t", "y">>, Str(<<>>)>>,
                     <<<<"s", "t", "a", "t", "e">>, Str(<<>>)>>,
                     <<<<"z", "i", "p", "C", "o", "d", "e">>, Str(<<>>)>>,
                     <<<<"c", "o", "u", "n", "t", "r", "y">>, Str(<<>>)>> >>)>>,
              <<<<"m", "a", "i", "l", "i", "n", "g", "A", "d", "d", "r", "e", "s", "s">>, Obj(<<
                     <<<<"s", "t", "r", "e", "e", "t">>, Str(<<>>)>>,
                     <<<<"c", "i", "t", "y">>, Str(<<>>)>>,
                     <<<<"s", "t", "a", "t", "e">>, Str(<<>>)>>,
                     <<<<"z", "i", "p", "C", "o", "d", "e">>, Str(<<>>)>>,
                     <<<<"c", "o", "u", "n", "t", "r", "y">>, Str(<<>>)>> >>)>> >>)>> >>)

\* this.immigrationDetails of the constructor
DefaultImmigrationDetails ==
    Obj(<<
       <<<<"u", "s", "c", "i", "s", "N", "u", "m", "b", "e", "r">>, Str(<<>>)>>,
       <<<<"i", "9", "4", "N", "u", "m", "b", "e", "r">>, Str(<<>>)>>,
       <<<<"c", "u", "r", "r", "e", "n", "t", "S", "t", "a", "t", "u", "s">>, Str(<<>>)>>,
       <<<<"s", "t", "a", "t", "u", "s", "V", "a", "l", "i", "d", "F", "r", "o", "m">>, Str(<<>>)>>,
       <<<<"s", "t", "a", "t", "u", "s", "V", "a", "l", "i", "d", "T", "o">>, Str(<<>>)>>,
       <<<<"e", "n", "t", "r", "y", "D", "a", "t", "e">>, Str(<<>>)>>,
       <<<<"p", "o", "r", "t", "O", "f", "E", "n", "t", "r", "y">>, Str(<<>>)>>,
       <<<<"v", "i", "s", "a", "T", "y", "p", "e">>, Str(<<>>)>>,
       <<<<"i", "7", "9", "7", "N", "o", "t", "i", "c", "e", "N", "u", "m", "b", "e", "r">>, Str(<<>>)>>,
       <<<<"p", "r", "i", "o", "r", "E", "A", "D">>, Obj(<<
              <<<<"h", "a", "s", "O", "b", "t", "a", "i", "n", "e", "d", "B", "e", "f", "o", "r", "e">>, Bool(FALSE)>>,
              <<<<"p", "r", "e", "v", "i", "o", "u", "s", "E", "A", "D", "N", "u", "m", "b", "e", "r">>, Str(<<>>)>>,
              <<<<"p", "r", "e", "v", "i", "o", "u", "s", "E", "x", "p", "i", "r", "a", "t", "i", "o", "n", "D", "a", "t", "e">>, Str(<<>>)>> >>)>>,
       <<<<"g", "r", "e", "e", "n", "C", "a", "r", "d">>, Obj(<<
              <<<<"h", "a", "s", "G", "r", "e", "e", "n", "C", "a", "r", "d">>, Bool(FALSE)>>,
              <<<<"c", "a", "r", "d", "N", "u", "m", "b", "e", "r">>, Str(<<>>)>>,
              <<<<"e", "x", "p", "i", "r", "a", "t", "i", "o", "n", "D", "a", "t", "e">>, Str(<<>>)>> >>)>>,
       <<<<"a", "d", "v", "a", "n", "c", "e", "d", "P", "a", "r", "o", "l", "e">>, Obj(<<
              <<<<"h", "a", "s", "A", "d", "v", "a", "n", "c", "e", "d", "P", "a", "r", "o", "l", "e">>, Bool(FALSE)>>,
              <<<<"d", "o", "c", "u", "m", "e", "n", "t", "N", "u", "m", "b", "e", "r">>, Str(<<>>)>>,
              <<<<"e", "x", "p", "i", "r", "a", "t", "i", "o", "n", "D", "a", "t", "e">>, Str(<<>>)>> >>)>>,
       <<<<"r", "e", "f", "u", "g", "e", "e", "A", "s", "y", "l", "e", "e", "S", "t", "a", "t", "u", "s">>, Obj(<<
              <<<<"i", "s", "R", "e", "f", "u", "g", "e", "e", "A", "o", "f", "f", "e", "r">>, Bool(FALSE)>>,
              <<<<"d", "a", "t", "e", "O", "f", "G", "r", "a", "n", "t">>, Str(<<>>)>>,
              <<<<"i", "s", "A", "s", "y", "l", "e", "e", "G", "r", "a", "n", "t", "e", "d">>, Bool(FALSE)>>,
              <<<<"d", "a", "t", "e", "A", "s", "y", "l", "u", "m", "G", "r", "a", "n", "t", "e", "d">>, Str(<<>>)>> >>)>> >>)

\* this.eligibilityInfo of the constructor
DefaultEligibilityInfo ==
    Obj(<<
       <<<<"c", "a", "t", "e", "g", "o", "r", "y">>, Str(<<>>)>>,
       <<<<"c", "a", "t", "e", "g", "o", "r", "y", "D", "e", "s", "c", "r", "i", "p", "t", "i", "o", "n">>, Str(<<>>)>>,
       <<<<"b", "a", "s", "i", "s", "F", "o", "r", "E", "l", "i", "g", "i", "b", "i", "l", "i", "t", "y">>, Obj(<<
              <<<<"d", "e", "f", "e", "r", "r", "e", "d", "A", "c", "t", "i", "o", "n", "F", "o", "r", "C", "h", "i", "l", "d", "r", "o", "o", "d", "s", "A", "r", "r", "i", "v", "a", "l", "s">>, Bool(FALSE)>>,
              <<<<"a", "s", "y", "l", "u", "m", "A", "d", "j", "u", "d", "i", "c", "a", "t", "i", "o", "n">>, Bool(FALSE)>>,
              <<<<"r", "e", "f", "u", "g", "e", "e", "S", "t", "a", "t", "u", "s">>, Bool(FALSE)>>,
              <<<<"s", "p", "e", "c", "i", "a", "l", "I", "m", "m", "i", "g", "r", "a", "n", "t", "S", "t", "a", "t", "u", "s">>, Bool(FALSE)>>,
              <<<<"f", "a", "m", "i", "l", "y">>, Bool(FALSE)>>,
              <<<<"e", "m", "p", "l", "o", "y", "m", "e", "n", "t">>, Bool(FALSE)>>,
              <<<<"o", "t", "h", "e", "r">>, Bool(FALSE)>>,
              <<<<"o", "t", "h", "e", "r", "D", "e", "s", "c", "r", "i", "p", "t", "i", "o", "n">>, Str(<<>>)>> >>)>>,
       <<<<"w", "o", "r", "k", "A", "u", "t", "h", "o", "r", "i", "z", "a", "t", "i", "o", "n">>, Obj(<<
              <<<<"n", "e", "v", "e", "r", "B", "e", "e", "n", "G", "r", "a", "n", "t", "e", "d", "E", "A", "D">>, Bool(FALSE)>>,
              <<<<"p", "r", "e", "v", "i", "o", "u", "s", "l", "y", "D", "e", "n", "i", "e", "d", "E", "A", "D">>, Bool(FALSE)>>,
              <<<<"p", "r", "e", "v", "i", "o", "u", "s", "l", "y", "R", "e", "v", "o", "k", "e", "d", "E", "A", "D">>, Bool(FALSE)>>,
              <<<<"i", "n", "v", "a", "l", "i", "d", "a", "t", "i", "n", "g", "F", "a", "c", "t", "o", "r", "s">>, EmptyArr>> >>)>>,
       <<<<"c", "r", "i", "m", "i", "n", "a", "l", "B", "a", "c", "k", "g", "r", "o", "u", "n", "d">>, Obj(<<
              <<<<"h", "a", "s", "C", "o", "n", "v", "e", "r", "t", "e", "r", "i", "o", "n">>, Bool(FALSE)>>,
              <<<<"c", "o", "n", "v", "i", "c", "t", "i", "o", "n", "D", "e", "t", "a", "i", "l", "s">>, Str(<<>>)>> >>)>>,
       <<<<"a", "p", "p", "l", "i", "c", "a", "t", "i", "o", "n", "P", "u", "r", "p", "o", "s", "e">>, Str(<<>>)>>,
       <<<<"r", "e", "q", "u", "e", "s", "t", "e", "d", "C", "a", "t", "e", "g", "o", "r", "y">>, Str(<<>>)>>,
       <<<<"i", "s", "E", "l", "i", "g", "i", "b", "l", "e">>, Null>> >>)

\* this.metadata of the constructor
DefaultMetadata(now, random) ==
    Obj(<<
       <<<<"f", "o", "r", "m", "V", "e", "r", "s", "i", "o", "n">>, Str(<<"7", "6", "5", " ", "(", "I", "-", "7", "6", "5", " ", "E", "m", "p", "l", "o", "y", "m", "e", "n", "t", " ", "A", "u", "t", "h", "o", "r", "i", "z", "a", "t", "i", "o", "n", " ", "D", "o", "c", "u", "m", "e", "n", "t", ")">>)>>,
       <<<<"f", "o", "r", "m", "V", "e", "r", "s", "i", "o", "n", "D", "a", "t", "e">>, Str(<<"2", "0", "2", "5", "-", "1", "2", "-", "0", "9">>)>>,
       <<<<"c", "r", "e", "a", "t", "e", "d", "A", "t">>, Str(IsoInstant(now))>>,
       <<<<"u", "p", "d", "a", "t", "e", "d", "A", "t">>, Str(IsoInstant(now))>>,
       <<<<"l", "a", "s", "t", "M", "o", "d", "i", "f", "i", "e", "d", "B", "y">>, Str(<<"M", "i", "a", "h", "e", "l", "l", "o", "w", "o", "r", "l", "d">>)>>,
       <<<<"s", "t", "a", "t", "u", "s">>, Str(<<"D", "R", "A", "F", "T">>)>>,
       <<<<"s", "u", "b", "m", "i", "s", "s", "i", "o", "n", "D", "a", "t", "e">>, Null>>,
       <<<<"c", "a", "s", "e", "N", "u", "m", "b", "e", "r">>, Str(<<>>)>>,
       <<<<"a", "p", "p", "l", "i", "c", "a", "t", "i", "o", "n", "I", "d">>, Str(ApplicationId(now, random))>>,
       <<<<"n", "o", "t", "e", "s">>, EmptyArr>>,
       <<<<"a", "t", "t", "a", "c", "h", "m", "e", "n", "t", "s">>, EmptyArr>>,
       <<<<"c", "o", "m", "p", "l", "e", "t", "i", "o", "n", "P", "e", "r", "c", "e", "n", "t", "a", "g", "e">>, Num(0)>> >>)

\* this.supportingDocuments of the constructor
DefaultSupportingDocuments ==
    Obj(<<
       <<<<"p", "a", "s", "s", "p", "o", "r", "t", "C", "o", "p", "y">>, Null>>,
       <<<<"b", "i", "r", "t", "h", "C", "e", "r", "t", "i", "f", "i", "c", "a", "t", "e">>, Null>>,
       <<<<"i", "d", "e", "n", "t", "i", "f", "i", "c", "a", "t", "i", "o", "n", "D", "o", "c", "u", "m", "e", "n", "t", "s">>, EmptyArr>>,
       <<<<"i", "m", "m", "i", "g", "r", "a", "t", "i", "o", "n", "D", "o", "c", "u", "m", "e", "n", "t", "s">>, EmptyArr>>,
       <<<<"p", "r", "e", "v", "i", "o", "u", "s", "E", "A", "D", "D", "o", "c", "u", "m", "e", "n", "t", "s">>, EmptyArr>>,
       <<<<"e", "m", "p", "l", "o", "y", "m", "e", "n", "t", "D", "o", "c", "u", "m", "e", "n", "t", "s">>, EmptyArr>>,
       <<<<"e", "d", "u", "c", "a", "t", "i", "o", "n", "D", "o", "c", "u", "m", "e", "n", "t", "s">>, EmptyArr>>,
       <<<<"a", "s", "y", "l", "u", "m", "D", "o", "c", "u", "m", "e", "n", "t", "s">>, EmptyArr>>,
       <<<<"o", "t", "h", "e", "r", "D", "o", "c", "u", "m", "e", "n", "t", "s">>, EmptyArr>> >>)

\* this.employmentInfo of the constructor
DefaultEmploymentInfo ==
    Obj(<<
       <<<<"j", "o", "b", "T", "i", "t", "l", "e">>, Str(<<>>)>>,
       <<<<"e", "m", "p", "l", "o", "y", "e", "r", "N", "a", "m", "e">>, Str(<<>>)>>,
       <<<<"e", "m", "p", "l", "o", "y", "e", "r", "E", "I", "N">>, Str(<<>>)>>,
       <<<<"e", "m", "p", "l", "o", "y", "e", "r", "A", "d", "d", "r", "e", "s", "s">>, Obj(<<
              <<<<"s", "t", "r", "e", "e", "t">>, Str(<<>>)>>,
              <<<<"c", "i", "t", "y">>, Str(<<>>)>>,
              <<<<"s", "t", "a", "t", "e">>, Str(<<>>)>>,
              <<<<"z", "i", "p", "C", "o", "d", "e">>, Str(<<>>)>>,
              <<<<"c", "o", "u", "n", "t", "r", "y">>, Str(<<>>)>> >>)>>,
       <<<<"s", "t", "a", "r", "t", "D", "a", "t", "e">>, Str(<<>>)>>,
       <<<<"e", "x", "p", "e", "c", "t", "e", "d", "E", "n", "d", "D", "a", "t", "e">>, Str(<<>>)>>,
       <<<<"p", "o", "s", "i", "t", "i", "o", "n", "T", "y", "p", "e">>, Str(<<>>)>>,
       <<<<"s", "a", "l", "a", "r", "y", "R", "a", "n", "g", "e">>, Obj(<<
              <<<<"m", "i", "n", "i", "m", "u", "m">>, Num(0)>>,
              <<<<"m", "a", "x", "i", "m", "u", "m">>, Num(0)>>,
              <<<<"c", "u", "r", "r", "e", "n", "c", "y">>, Str(<<"U", "S", "D">>)>> >>)>> >>)

\* this.paymentInfo of the constructor
DefaultPaymentInfo ==
    Obj(<<
       <<<<"f", "i", "l", "i", "n", "g", "F", "e", "e">>, Num(0)>>,
       <<<<"b", "i", "o", "m", "e", "t", "r", "i", "c", "F", "e", "e">>, Num(0)>>,
       <<<<"t", "o", "t", "a", "l", "F", "e", "e">>, Num(0)>>,
       <<<<"p", "a", "y", "m", "e", "n", "t", "M", "e", "t", "h", "o", "d">>, Str(<<>>)>>,
       <<<<"p", "a", "y", "m", "e", "n", "t", "D", "a", "t", "e">>, Null>>,
       <<<<"r", "e", "c", "e", "i", "p", "t", "N", "u", "m", "b", "e", "r">>, Str(<<>>)>>,
       <<<<"i", "s", "P", "a", "i", "d">>, Bool(FALSE)>> >>)
kPersonalInfo == <<"p", "e", "r", "s", "o", "n", "a", "l", "I", "n", "f", "o">>

kImmigrationDetails == <<"i", "m", "m", "i", "g", "r", "a", "t", "i", "o", "n", "D", "e", "t", "a", "i", "l", "s">>

kEligibilityInfo == <<"e", "l", "i", "g", "i", "b", "i", "l", "i", "t", "y", "I", "n", "f", "o">>

kEmploymentInfo == <<"e", "m", "p", "l", "o", "y", "m", "e", "n", "t", "I", "n", "f", "o">>

kPaymentInfo == <<"p", "a", "y", "m", "e", "n", "t", "I", "n", "f", "o">>

kSupportingDocuments == <<"s", "u", "p", "p", "o", "r", "t", "i", "n", "g", "D", "o", "c", "u", "m", "e", "n", "t", "s">>

kMetadata == <<"m", "e", "t", "a", "d", "a", "t", "a">>

kUpdatedAt == <<"u", "p", "d", "a", "t", "e", "d", "A", "t">>

kCompletionPercentage == <<"c", "o", "m", "p", "l", "e", "t", "i", "o", "n", "P", "e", "r", "c", "e", "n", "t", "a", "g", "e">>

kNotes == <<"n", "o", "t", "e", "s">>

\* new ApplicantProfile(), the properties in the order the constructor
\* assigns them
NewProfile(now, random) ==
    Obj(<< <<kPersonalInfo, DefaultPersonalInfo>>,
           <<kImmigrationDetails, DefaultImmigrationDetails>>,
           <<kEligibilityInfo, DefaultEligibilityInfo>>,
           <<kMetadata, DefaultMetadata(now, random)>>,
           <<kSupportingDocuments, DefaultSupportingDocuments>>,
           <<kEmploymentInfo, DefaultEmploymentInfo>>,
           <<kPaymentInfo, DefaultPaymentInfo>> >>)

\* { ...b, ...a } restricted to the keys and order of { ...a, ...b }: the
\* target's values win
SpreadKeepsTarget(a, b) ==
    [t |-> "object", b |-> FALSE, s |-> <<>>, d |-> <<>>,
     o |-> a.o \o SelectSeq(b.o, LAMBDA k : k \notin DOMAIN a.m),
     m |-> [k \in (DOMAIN a.m) \cup (DOMAIN b.m) |->
               IF k \in DOMAIN a.m THEN a.m[k] ELSE b.m[k]]]

\* { ...a, ...b } for two objects: the own properties of a, then those of
\* b, a key of both keeping its place and taking b's value
Spread(a, b) ==
    [t |-> "object", b |-> FALSE, s |-> <<>>, d |-> <<>>,
     o |-> a.o \o SelectSeq(b.o, LAMBDA k : k \notin DOMAIN a.m),
     m |-> [k \in (DOMAIN a.m) \cup (DOMAIN b.m) |->
               IF k \in DOMAIN b.m THEN b.m[k] ELSE a.m[k]]]

\* the sections in the order toJSON lists and fromJSON reads them
SectionKeys ==
    << kPersonalInfo, kImmigrationDetails, kEligibilityInfo, kEmploymentInfo,
       kPaymentInfo, kSupportingDocuments, kMetadata >>

\* ApplicantProfile.toJSON()
toJSON(p) == Obj([i \in 1..Len(SectionKeys) |-> <<SectionKeys[i], GetProp(p, SectionKeys[i])>>])

\* the statements `if (data.x) this.x = { ...this.x, ...data.x }` of
\* fromJSON, from the i-th on
RECURSIVE MergeSections(_, _, _)
MergeSections(p, data, i) ==
    IF i > Len(SectionKeys) THEN p
    ELSE LET k == SectionKeys[i]
         IN  MergeSections(IF Truthy(GetProp(data, k))
                           THEN PutProp(p, k, Spread(GetProp(p, k), GetProp(data, k)))
                           ELSE p,
                           data, i + 1)

\* this.metadata.updatedAt = new Date().toISOString()
Touched(p, now) ==
    PutProp(p, kMetadata, PutProp(GetProp(p, kMetadata), kUpdatedAt, Str(IsoInstant(now))))

\* ApplicantProfile.fromJSON(data), data an object
fromJSON(p, data, now) == Touched(MergeSections(p, data, 1), now)

\* array.push(value) on a dense array
Push(arr, value) == PutProp(arr, NumStr(Len(arr.o)), value)

\* ApplicantProfile.addNote(note)
addNote(p, note, now) ==
    LET metadata == GetProp(p, kMetadata)
        pushed == Push(GetProp(metadata, kNotes),
                       Obj(<< <<<<"t", "e", "x", "t">>, Str(note)>>,
                              <<<<"t", "i", "m", "e", "s", "t", "a", "m", "p">>, Str(IsoInstant(now))>>,
                              <<<<"a", "u", "t", "h", "o", "r">>, Str(<<"M", "i", "a", "h", "e", "l", "l", "o", "w", "o", "r", "l", "d">>)>> >>))
    IN  PutProp(p, kMetadata, PutProp(metadata, kNotes, pushed))

\* `${prefix}.${key}`, or key under the empty prefix
FlatKey(prefix, key) == IF prefix # <<>> THEN prefix \o <<".">> \o key ELSE key

\* ApplicantProfile._flattenObject(obj, prefix), from the i-th own key on:
\* the leaves by dotted key; an object that is not an array is descended
\* into, and a later key overrides an equal earlier one
RECURSIVE FlattenFrom(_, _, _, _)
FlattenFrom(obj, prefix, i, flattened) ==
    IF i > Len(obj.o) THEN flattened
    ELSE LET key == obj.o[i]
             value == obj.m[key]
             newKey == FlatKey(prefix, key)
             inner == IF value.t \in {"object", "date"}
                      THEN FlattenFrom(value, newKey, 1, EmptyMap)
                      ELSE [k \in {newKey} |-> value]
         IN  FlattenFrom(obj, prefix, i + 1,
                         [k \in (DOMAIN flattened) \cup (DOMAIN inner) |->
                             IF k \in DOMAIN inner THEN inner[k] ELSE flattened[k]])

flattenObject(obj) == FlattenFrom(obj, <<>>, 1, EmptyMap)

\* val !== '' && val !== null && val !== undefined && val !== false
IsFilled(val) ==
    /\ ~StrictEq(val, Str(<<>>))
    /\ val.t \notin {"null", "undefined"}
    /\ ~StrictEq(val, Bool(FALSE))

\* ApplicantProfile._calculateSectionCompletion(section) is
\* (filledFields / totalFields) * 100; the model keeps the two counts, and
\* [0, 1] for the sections that give 0
calculateSectionCompletion(section) ==
    IF ~Truthy(section) \/ ~TypeofObject(section) THEN [filled |-> 0, total |-> 1]
    ELSE LET fields == flattenObject(section)
         IN  IF Cardinality(DOMAIN fields) = 0 THEN [filled |-> 0, total |-> 1]
             ELSE [filled |-> Cardinality({ k \in DOMAIN fields : IsFilled(fields[k]) }),
                   total |-> Cardinality(DOMAIN fields)]

RECURSIVE Gcd(_, _)
Gcd(a, b) == IF b = 0 THEN a ELSE Gcd(b, a % b)

\* the sum of two fractions, in lowest terms
FracAdd(x, y) ==
    LET num == x.num * y.den + y.num * x.den
        den == x.den * y.den
        g == Gcd(num, den)
    IN  [num |-> num \div g, den |-> den \div g]

\* the sections calculateCompletionPercentage averages over
CompletionSections ==
    << kPersonalInfo, kImmigrationDetails, kEligibilityInfo, kEmploymentInfo, kPaymentInfo >>

\* the sum over the sections of filledFields / totalFields, as a fraction
RECURSIVE ShareSum(_, _)
ShareSum(p, i) ==
    IF i > Len(CompletionSections) THEN [num |-> 0, den |-> 1]
    ELSE LET c == calculateSectionCompletion(GetProp(p, CompletionSections[i]))
         IN  FracAdd([num |-> c.filled, den |-> c.total], ShareSum(p, i + 1))

\* Math.round(x) for x = num / den, not negative: halves go up
RoundFraction(num, den) ==
    (num \div den) + (IF 2 * (num % den) >= den THEN 1 ELSE 0)

\* the percentage of calculateCompletionPercentage: with S the sum of the
\* shares, Math.round(((S * 100) / 5) * 100), computed exactly as
\* round(2000 * S)
CompletionOf(p) ==
    LET sum == ShareSum(p, 1)
        whole == sum.num \div sum.den
        rest == sum.num % sum.den
    IN  2000 * whole + RoundFraction(2000 * rest, sum.den)

\* ApplicantProfile.calculateCompletionPercentage(): [profile, percentage]
calculateCompletionPercentage(p) ==
    [profile |-> PutProp(p, kMetadata,
                         PutProp(GetProp(p, kMetadata), kCompletionPercentage,
                                 Num(CompletionOf(p)))),
     percentage |-> CompletionOf(p)]

\* section data given to fromJSON: a partial personalInfo; fees paid and a
\* status; a null section and an empty one
ImportDatas ==
    { Obj(<< <<kPersonalInfo,
               Obj(<< <<<<"f", "i", "r", "s", "t", "N", "a", "m", "e">>, Str(<<"L", "i">>)>>,
                      <<<<"c", "o", "n", "t", "a", "c", "t">>, Obj(<< <<<<"e", "m", "a", "i", "l">>, Str(<<"a", "@", "b", ".", "c">>)>> >>)>> >>)>> >>),
      Obj(<< <<kPaymentInfo,
               Obj(<< <<<<"f", "i", "l", "i", "n", "g", "F", "e", "e">>, Num(470)>>, <<<<"i", "s", "P", "a", "i", "d">>, Bool(TRUE)>> >>)>>,
             <<kMetadata, Obj(<< <<<<"s", "t", "a", "t", "u", "s">>, Str(<<"S", "U", "B", "M", "I", "T", "T", "E", "D">>)>> >>)>> >>),
      Obj(<< <<kEligibilityInfo, Null>>, <<kEmploymentInfo, EmptyObj>> >>) }

\* single fields set along their paths, as the mapper sets them
ProfileEdits ==
    { <<<<"p", "e", "r", "s", "o", "n", "a", "l", "I", "n", "f", "o", ".", "l", "a", "s", "t", "N", "a", "m", "e">>, Str(<<"W", "u">>)>>,
      <<<<"i", "m", "m", "i", "g", "r", "a", "t", "i", "o", "n", "D", "e", "t", "a", "i", "l", "s", ".", "p", "r", "i", "o", "r", "E", "A", "D", ".", "h", "a", "s", "O", "b", "t", "a", "i", "n", "e", "d", "B", "e", "f", "o", "r", "e">>, Bool(TRUE)>>,
      <<<<"e", "l", "i", "g", "i", "b", "i", "l", "i", "t", "y", "I", "n", "f", "o", ".", "i", "s", "E", "l", "i", "g", "i", "b", "l", "e">>, Bool(FALSE)>> }

sNote == <<"c", "a", "l", "l", " ", "b", "a", "c", "k">>

NoRoundTrip == [p |-> Null, q |-> Null]

NoCompletion == [returned |-> -1, stored |-> Undefined]

(***************************************************************************)
(* ApplicantProfile: the validate methods.  A result is [isValid, errors,  *)
(* raised]; raised is TRUE when the method ends in a TypeError (a property *)
(* read on undefined or null) instead of returning.                        *)
(***************************************************************************)
kContact == <<"c", "o", "n", "t", "a", "c", "t">>

kAddress == <<"a", "d", "d", "r", "e", "s", "s">>

kWorkAuthorization == <<"w", "o", "r", "k", "A", "u", "t", "h", "o", "r", "i", "z", "a", "t", "i", "o", "n">>

kPreviouslyDeniedEAD == <<"p", "r", "e", "v", "i", "o", "u", "s", "l", "y", "D", "e", "n", "i", "e", "d", "E", "A", "D">>

kPreviouslyRevokedEAD == <<"p", "r", "e", "v", "i", "o", "u", "s", "l", "y", "R", "e", "v", "o", "k", "e", "d", "E", "A", "D">>

kCategory == <<"c", "a", "t", "e", "g", "o", "r", "y">>

kApplicationPurpose == <<"a", "p", "p", "l", "i", "c", "a", "t", "i", "o", "n", "P", "u", "r", "p", "o", "s", "e">>

sDenialMessage == <<"A", "p", "p", "l", "i", "c", "a", "n", "t", "s", " ", "w", "i", "t", "h", " ", "p", "r", "e", "v", "i", "o", "u", "s", " ", "d", "e", "n", "i", "a", "l", "s", " ", "o", "r", " ", "r", "e", "v", "o", "c", "a", "t", "i", "o", "n", "s", " ", "m", "a", "y", " ", "h", "a", "v", "e", " ", "e", "l", "i", "g", "i", "b", "i", "l", "i", "t", "y", " ", "i", "s", "s", "u", "e", "s">>

\* if (!obj.key) errors.push(message)
RequiredError(obj, key, message) ==
    IF Truthy(GetProp(obj, key)) THEN <<>> ELSE <<message>>

Raised == [isValid |-> FALSE, errors |-> <<>>, raised |-> TRUE]

ResultOf(errors) == [isValid |-> errors = <<>>, errors |-> errors, raised |-> FALSE]

\* validatePersonalInfo()
validatePersonalInfo(p) ==
    LET info == GetProp(p, kPersonalInfo)
        contact == GetProp(info, kContact)
        address == GetProp(contact, kAddress)
    IN  IF IsNullish(info) \/ IsNullish(contact) \/ IsNullish(address) THEN Raised
        ELSE ResultOf(
               RequiredError(info, <<"f", "i", "r", "s", "t", "N", "a", "m", "e">>, <<"F", "i", "r", "s", "t", " ", "n", "a", "m", "e", " ", "i", "s", " ", "r", "e", "q", "u", "i", "r", "e", "d">>)
               \o RequiredError(info, <<"l", "a", "s", "t", "N", "a", "m", "e">>, <<"L", "a", "s", "t", " ", "n", "a", "m", "e", " ", "i", "s", " ", "r", "e", "q", "u", "i", "r", "e", "d">>)
               \o RequiredError(info, <<"d", "a", "t", "e", "O", "f", "B", "i", "r", "t", "h">>, <<"D", "a", "t", "e", " ", "o", "f", " ", "b", "i", "r", "t", "h", " ", "i", "s", " ", "r", "e", "q", "u", "i", "r", "e", "d">>)
               \o RequiredError(info, <<"g", "e", "n", "d", "e", "r">>, <<"G", "e", "n", "d", "e", "r", " ", "i", "s", " ", "r", "e", "q", "u", "i", "r", "e", "d">>)
               \o RequiredError(contact, <<"e", "m", "a", "i", "l">>, <<"E", "m", "a", "i", "l", " ", "a", "d", "d", "r", "e", "s", "s", " ", "i", "s", " ", "r", "e", "q", "u", "i", "r", "e", "d">>)
               \o RequiredError(contact, <<"p", "h", "o", "n", "e", "N", "u", "m", "b", "e", "r">>, <<"P", "h", "o", "n", "e", " ", "n", "u", "m", "b", "e", "r", " ", "i", "s", " ", "r", "e", "q", "u", "i", "r", "e", "d">>)
               \o RequiredError(address, <<"s", "t", "r", "e", "e", "t">>, <<"S", "t", "r", "e", "e", "t", " ", "a", "d", "d", "r", "e", "s", "s", " ", "i", "s", " ", "r", "e", "q", "u", "i", "r", "e", "d">>)
               \o RequiredError(address, <<"c", "i", "t", "y">>, <<"C", "i", "t", "y", " ", "i", "s", " ", "r", "e", "q", "u", "i", "r", "e", "d">>)
               \o RequiredError(address, <<"s", "t", "a", "t", "e">>, <<"S", "t", "a", "t", "e", " ", "i", "s", " ", "r", "e", "q", "u", "i", "r", "e", "d">>)
               \o RequiredError(address, <<"z", "i", "p", "C", "o", "d", "e">>, <<"Z", "i", "p", " ", "c", "o", "d", "e", " ", "i", "s", " ", "r", "e", "q", "u", "i", "r", "e", "d">>))

\* validateImmigrationDetails()
validateImmigrationDetails(p) ==
    LET details == GetProp(p, kImmigrationDetails)
    IN  IF IsNullish(details) THEN Raised
        ELSE ResultOf(
               RequiredError(details, <<"u", "s", "c", "i", "s", "N", "u", "m", "b", "e", "r">>, <<"U", "S", "C", "I", "S", " ", "A", "-", "N", "u", "m", "b", "e", "r", " ", "i", "s", " ", "r", "e", "q", "u", "i", "r", "e", "d">>)
               \o RequiredError(details, <<"c", "u", "r", "r", "e", "n", "t", "S", "t", "a", "t", "u", "s">>, <<"C", "u", "r", "r", "e", "n", "t", " ", "i", "m", "m", "i", "g", "r", "a", "t", "i", "o", "n", " ", "s", "t", "a", "t", "u", "s", " ", "i", "s", " ", "r", "e", "q", "u", "i", "r", "e", "d">>)
               \o RequiredError(details, <<"s", "t", "a", "t", "u", "s", "V", "a", "l", "i", "d", "F", "r", "o", "m">>, <<"S", "t", "a", "t", "u", "s", " ", "v", "a", "l", "i", "d", " ", "f", "r", "o", "m", " ", "d", "a", "t", "e", " ", "i", "s", " ", "r", "e", "q", "u", "i", "r", "e", "d">>)
               \o RequiredError(details, <<"s", "t", "a", "t", "u", "s", "V", "a", "l", "i", "d", "T", "o">>, <<"S", "t", "a", "t", "u", "s", " ", "v", "a", "l", "i", "d", " ", "t", "o", " ", "d", "a", "t", "e", " ", "i", "s", " ", "r", "e", "q", "u", "i", "r", "e", "d">>)
               \o RequiredError(details, <<"e", "n", "t", "r", "y", "D", "a", "t", "e">>, <<"E", "n", "t", "r", "y", " ", "d", "a", "t", "e", " ", "t", "o", " ", "U", "S", " ", "i", "s", " ", "r", "e", "q", "u", "i", "r", "e", "d">>))

\* a validateEligibility that reads the two flags where the constructor puts them
validateEligibilityUnderWorkAuthorization(p) ==
    LET eligibility == GetProp(p, kEligibilityInfo)
        work == GetProp(eligibility, kWorkAuthorization)
    IN  IF IsNullish(eligibility) \/ IsNullish(work) THEN Raised
        ELSE ResultOf(
               RequiredError(eligibility, kCategory, <<"E", "A", "D", " ", "c", "a", "t", "e", "g", "o", "r", "y", " ", "i", "s", " ", "r", "e", "q", "u", "i", "r", "e", "d">>)
               \o RequiredError(eligibility, kApplicationPurpose, <<"A", "p", "p", "l", "i", "c", "a", "t", "i", "o", "n", " ", "p", "u", "r", "p", "o", "s", "e", " ", "i", "s", " ", "r", "e", "q", "u", "i", "r", "e", "d">>)
               \o (IF Truthy(GetProp(work, kPreviouslyDeniedEAD))
                      \/ Truthy(GetProp(work, kPreviouslyRevokedEAD))
                   THEN <<sDenialMessage>> ELSE <<>>))

\* validateEligibility(): the flags are read on eligibilityInfo itself
validateEligibility(p) ==
    LET eligibility == GetProp(p, kEligibilityInfo)
    IN  IF IsNullish(eligibility) THEN Raised
        ELSE ResultOf(
               RequiredError(eligibility, kCategory, <<"E", "A", "D", " ", "c", "a", "t", "e", "g", "o", "r", "y", " ", "i", "s", " ", "r", "e", "q", "u", "i", "r", "e", "d">>)
               \o RequiredError(eligibility, kApplicationPurpose, <<"A", "p", "p", "l", "i", "c", "a", "t", "i", "o", "n", " ", "p", "u", "r", "p", "o", "s", "e", " ", "i", "s", " ", "r", "e", "q", "u", "i", "r", "e", "d">>)
               \o (IF Truthy(GetProp(eligibility, kPreviouslyDeniedEAD))
                      \/ Truthy(GetProp(eligibility, kPreviouslyRevokedEAD))
                   THEN <<sDenialMessage>> ELSE <<>>))

\* validateAll(): the three methods in turn, their errors concatenated
validateAll(p) ==
    LET personalValidation == validatePersonalInfo(p)
        immigrationValidation == validateImmigrationDetails(p)
        eligibilityValidation == validateEligibility(p)
    IN  IF personalValidation.raised \/ immigrationValidation.raised
           \/ eligibilityValidation.raised
        THEN Raised
        ELSE ResultOf(personalValidation.errors \o immigrationValidation.errors
                       \o eligibilityValidation.errors)

\* the methods by name
ValidateMethods ==
    {"validatePersonalInfo", "validateImmigrationDetails", "validateEligibility",
     "validateAll"}

Validate(method, p) ==
    CASE method = "validatePersonalInfo" -> validatePersonalInfo(p)
      [] method = "validateImmigrationDetails" -> validateImmigrationDetails(p)
      [] method = "validateEligibility" -> validateEligibility(p)
      [] OTHER -> validateAll(p)

NoValidity == [method |-> "none", of |-> Null, res |-> ResultOf(<<>>)]

\* section data with the eligibility answers: a category and a purpose with
\* a previous denial, with a previous revocation, and with neither
EligibilityData(denied, revoked) ==
    Obj(<< <<kEligibilityInfo,
             Obj(<< <<kCategory, Str(<<"(", "c", ")", "(", "9", ")">>)>>,
                    <<kApplicationPurpose, Str(<<"i", "n", "i", "t", "i", "a", "l">>)>>,
                    <<kWorkAuthorization,
                      Obj(<< <<<<"n", "e", "v", "e", "r", "B", "e", "e", "n", "G", "r", "a", "n", "t", "e", "d", "E", "A", "D">>, Bool(FALSE)>>,
                             <<kPreviouslyDeniedEAD, Bool(denied)>>,
                             <<kPreviouslyRevokedEAD, Bool(revoked)>>,
                             <<<<"i", "n", "v", "a", "l", "i", "d", "a", "t", "i", "n", "g", "F", "a", "c", "t", "o", "r", "s">>, EmptyArr>> >>)>> >>)>> >>)

EligibilityDatas ==
    { EligibilityData(TRUE, FALSE), EligibilityData(FALSE, TRUE),
      EligibilityData(FALSE, FALSE) }

(***************************************************************************)
(* LocalizationManager.  TRANSLATIONS is the dictionary of the source, cut *)
(* down to two of its 152 keys; every key of the source holds a dot.  A    *)
(* character outside ASCII is written as one element naming its code       *)
(* point.  The manager is [currentLanguage, defaultLanguage,               *)
(* fallbackLanguage, missingTranslations, translationCache, preference].   *)
(***************************************************************************)
codeEn == <<"e", "n">>

codeZh == <<"z", "h">>

codeFr == <<"f", "r">>

\* Object.values(SUPPORTED_LANGUAGES)
SUPPORTED_LANGUAGES == {codeEn, codeZh}

kAppTitle == <<"a", "p", "p", ".", "t", "i", "t", "l", "e">>

kFieldFirstName == <<"f", "i", "e", "l", "d", ".", "f", "i", "r", "s", "t", "N", "a", "m", "e">>

kNoSuchKey == <<"n", "o", ".", "s", "u", "c", "h", ".", "k", "e", "y">>

TRANSLATIONS ==
    Obj(<< <<codeEn,
             Obj(<< <<kAppTitle, Str(<<"A", "p", "p", "l", "i", "c", "a", "t", "i", "o", "n", " ", "f", "o", "r", " ", "E", "m", "p", "l", "o", "y", "m", "e", "n", "t", " ", "A", "u", "t", "h", "o", "r", "i", "z", "a", "t", "i", "o", "n">>)>>,
                    <<kFieldFirstName, Str(<<"G", "i", "v", "e", "n", " ", "N", "a", "m", "e", " ", "(", "F", "i", "r", "s", "t", " ", "N", "a", "m", "e", ")">>)>> >>)>>,
           <<codeZh,
             Obj(<< <<kAppTitle, Str(<<"u5DE5", "u4F5C", "u8BB8", "u53EF", "u7533", "u8BF7">>)>>,
                    <<kFieldFirstName,
                      Str(<<"u540D", "u5B57", "uFF08", "u540D", "uFF09">>)>> >>)>> >>)

\* the loop of getTranslation over key.split('.')
RECURSIVE TranslationWalk(_, _)
TranslationWalk(current, parts) ==
    IF parts = <<>>
    THEN IF current.t = "string" THEN current ELSE Null
    ELSE IF Truthy(current) /\ TypeofObject(current) /\ Head(parts) \in DOMAIN current.m
         THEN TranslationWalk(current.m[Head(parts)], Tail(parts))
         ELSE Null

\* LocalizationManager.getTranslation(language, key)
getTranslation(language, key) ==
    TranslationWalk(GetProp(TRANSLATIONS, language), Split(key))

\* new LocalizationManager(defaultLanguage)
NewManager(defaultLanguage) ==
    [currentLanguage |-> defaultLanguage, defaultLanguage |-> defaultLanguage,
     fallbackLanguage |-> codeEn, missingTranslations |-> {},
     translationCache |-> EmptyMap, preference |-> <<>>, listeners |-> <<>>]

\* `${this.currentLanguage}_${key}`
CacheKey(language, key) == language \o <<"_">> \o key

\* the translation t settles on when the cache has none: [text, missing]
Lookup(manager, key) ==
    LET first == getTranslation(manager.currentLanguage, key)
        second == IF ~Truthy(first) /\ manager.currentLanguage # manager.defaultLanguage
                  THEN getTranslation(manager.defaultLanguage, key) ELSE first
        third == IF ~Truthy(second) /\ manager.defaultLanguage # manager.fallbackLanguage
                 THEN getTranslation(manager.fallbackLanguage, key) ELSE second
    IN  IF Truthy(third) THEN [text |-> third.s, missing |-> FALSE]
        ELSE [text |-> key, missing |-> TRUE]

\* LocalizationManager.t(key) with no variables to interpolate:
\* [manager, res]
t(manager, key) ==
    LET cacheKey == CacheKey(manager.currentLanguage, key)
        found == Lookup(manager, key)
    IN  IF cacheKey \in DOMAIN manager.translationCache
           /\ manager.translationCache[cacheKey] # <<>>
        THEN [manager |-> manager, res |-> manager.translationCache[cacheKey]]
        ELSE [manager |->
                [manager EXCEPT
                    !.missingTranslations = IF found.missing THEN @ \cup {key} ELSE @,
                    !.translationCache =
                        [k \in (DOMAIN @) \cup {cacheKey} |->
                            IF k = cacheKey THEN found.text ELSE @[k]]],
              res |-> found.text]

\* onChange(callback): a callback is a function that returns, a function
\* that throws, or not a function
Callbacks == {"returns", "returnsToo", "throws", "notAFunction"}

onChange(manager, callback) ==
    IF callback # "notAFunction"
    THEN [manager EXCEPT !.listeners = Append(@, callback)]
    ELSE manager

\* offChange(callback)
offChange(manager, callback) ==
    [manager EXCEPT !.listeners = SelectSeq(@, LAMBDA listener : listener # callback)]

\* a notifyListeners without the try/catch: the first throwing listener
\* ends the loop
RECURSIVE notifyListenersUncaught(_)
notifyListenersUncaught(manager) ==
    IF manager.listeners = <<>> THEN <<>>
    ELSE <<[listener |-> Head(manager.listeners), language |-> manager.currentLanguage]>>
         \o (IF Head(manager.listeners) = "throws" THEN <<>>
             ELSE notifyListenersUncaught([manager EXCEPT !.listeners = Tail(@)]))

\* notifyListeners(): the calls made, in order; an exception of a listener
\* is caught and logged
notifyListeners(manager) ==
    [i \in 1..Len(manager.listeners) |->
        [listener |-> manager.listeners[i], language |-> manager.currentLanguage]]

\* what a setLanguage(language) call returns, the listener calls it makes
\* and whether it calls saveLanguagePreference
setLanguageCall(manager, language) ==
    IF language \notin SUPPORTED_LANGUAGES
    THEN [returned |-> FALSE, calls |-> <<>>, saved |-> FALSE]
    ELSE IF manager.currentLanguage # language
         THEN [returned |-> TRUE,
               calls |-> notifyListeners([manager EXCEPT !.currentLanguage = language]),
               saved |-> TRUE]
         ELSE [returned |-> TRUE, calls |-> <<>>, saved |-> FALSE]

NoLangCall ==
    [done |-> FALSE, language |-> <<>>, before |-> <<>>, listeners |-> <<>>,
     returned |-> FALSE, calls |-> <<>>, saved |-> FALSE, changed |-> FALSE]

\* LocalizationManager.setLanguage(language): the manager after the call
setLanguage(manager, language) ==
    IF language \notin SUPPORTED_LANGUAGES THEN manager
    ELSE IF manager.currentLanguage # language
         THEN [manager EXCEPT !.currentLanguage = language, !.preference = language]
         ELSE manager

NoTranslation == [key |-> <<>>, language |-> <<>>, res |-> <<>>]

TranslationKeys == {kAppTitle, kFieldFirstName, kNoSuchKey}

(***************************************************************************)
(* FormValidator (part_001).  The rules of a field are a JavaScript        *)
(* object; a descriptor the validator reads has, besides the attributes    *)
(* the mapper reads, required, max_length and validation, each Undefined   *)
(* when absent.  A result is [isValid, errors, raised]: raised when the    *)
(* call ends in a TypeError.                                               *)
(***************************************************************************)
Ruled(desc, required, max_length, validation) ==
    [field_id |-> desc.field_id, data_path |-> desc.data_path,
     pdf_field_name |-> desc.pdf_field_name, item_number |-> desc.item_number,
     type |-> desc.type, value_mapping |-> desc.value_mapping,
     required |-> required, max_length |-> max_length, validation |-> validation]

\* the text of the type attribute
TypeText ==
    [type \in {"Text Input", "Checkbox", "Radio", "Date Input", "email", "phone", "date"} |->
        CASE type = "Text Input" -> <<"T", "e", "x", "t", " ", "I", "n", "p", "u", "t">>
          [] type = "Checkbox" -> <<"C", "h", "e", "c", "k", "b", "o", "x">>
          [] type = "Radio" -> <<"R", "a", "d", "i", "o">>
          [] type = "Date Input" -> <<"D", "a", "t", "e", " ", "I", "n", "p", "u", "t">>
          [] type = "email" -> <<"e", "m", "a", "i", "l">>
          [] type = "phone" -> <<"p", "h", "o", "n", "e">>
          [] type = "date" -> <<"d", "a", "t", "e">>]

kRequired == <<"r", "e", "q", "u", "i", "r", "e", "d">>

kMaxLength == <<"m", "a", "x", "_", "l", "e", "n", "g", "t", "h">>

kMinLength == <<"m", "i", "n", "_", "l", "e", "n", "g", "t", "h">>

kType == <<"t", "y", "p", "e">>

kPattern == <<"p", "a", "t", "t", "e", "r", "n">>

kFormat == <<"f", "o", "r", "m", "a", "t">>

kErrorMessageEn == <<"e", "r", "r", "o", "r", "_", "m", "e", "s", "s", "a", "g", "e", "_", "e", "n">>

kErrorMessageZh == <<"e", "r", "r", "o", "r", "_", "m", "e", "s", "s", "a", "g", "e", "_", "z", "h">>

\* isZh ? zh : en
Message(isZh, zh, en) == IF isZh THEN zh ELSE en

IsSpace(c) == c \in {" ", "\t", "\n", "\r"}

\* /^[^\s@]+@[^\s@]+\.[^\s@]+$/.test(str)
emailRegex(str) ==
    \E i \in 2..Len(str), j \in 4..(Len(str) - 1) :
        /\ i + 1 < j
        /\ str[i] = "@"
        /\ str[j] = "."
        /\ \A k \in 1..Len(str) : k # i => (~IsSpace(str[k]) /\ str[k] # "@")

\* /^[\d\s\-\(\)\+]+$/.test(str)
phoneRegex(str) ==
    /\ str # <<>>
    /\ \A i \in 1..Len(str) :
          str[i] \in Digits \/ IsSpace(str[i]) \/ str[i] \in {"-", "(", ")", "+"}

IsDigitChar(c) == c \in Digits

\* str.replace(/\D/g, '')
digitsOnly(str) == SelectSeq(str, IsDigitChar)

\* /^A\d{8,9}$/.test(str)
aNumberRegex(str) ==
    /\ Len(str) \in {9, 10}
    /\ str[1] = "A"
    /\ \A i \in 2..Len(str) : str[i] \in Digits

\* /^\d{11}$/.test(str)
i94Regex(str) == Len(str) = 11 /\ IsDigits(str)

\* /^\d{3}-\d{2}-\d{4}$/.test(str)
ssnRegex(str) ==
    /\ Len(str) = 11
    /\ str[4] = "-" /\ str[7] = "-"
    /\ \A i \in {1, 2, 3, 5, 6, 8, 9, 10, 11} : str[i] \in Digits

\* /^\d{5}(-\d{4})?$/.test(str)
zipRegex(str) ==
    \/ Len(str) = 5 /\ IsDigits(str)
    \/ /\ Len(str) = 10
       /\ IsDigits(SubSeq(str, 1, 5))
       /\ str[6] = "-"
       /\ IsDigits(SubSeq(str, 7, 10))

\* /^\([a-z]\)\d+\)(?:\([ivx]+\))?$/.test(str)
categoryRegex(str) ==
    /\ Len(str) >= 5
    /\ str[1] = "(" /\ IsLower(str[2]) /\ str[3] = ")"
    /\ \E n \in 1..(Len(str) - 4) :
          /\ IsDigits(SubSeq(str, 4, 3 + n))
          /\ str[4 + n] = ")"
          /\ \/ Len(str) = 4 + n
             \/ /\ Len(str) >= 7 + n
                /\ str[5 + n] = "("
                /\ str[Len(str)] = ")"
                /\ \A i \in (6 + n)..(Len(str) - 1) : str[i] \in {"i", "v", "x"}

sLettersOnly == <<"^", "[", "A", "-", "Z", "a", "-", "z", "]", "+", "$">>

\* new RegExp(pattern).test(str), for the pattern the schemas of the model
\* carry
patternRegex(pattern, str) ==
    IF pattern = sLettersOnly
    THEN str # <<>> /\ \A i \in 1..Len(str) : IsUpper(str[i]) \/ IsLower(str[i])
    ELSE TRUE

sDateFormat == <<"M", "M", "/", "D", "D", "/", "Y", "Y", "Y", "Y">>

\* FormValidator.validateDate(dateStr, format), format Undefined when the
\* argument is left to its default
validateDate(dateStr, format) ==
    IF ~Truthy(dateStr) \/ dateStr.t # "string" THEN FALSE
    ELSE IF format.t # "undefined" /\ ~StrictEq(format, Str(sDateFormat)) THEN FALSE
    ELSE IF ~IsUsShape(dateStr.s) THEN FALSE
    ELSE LET month == ToNum(SubSeq(dateStr.s, 1, 2))
             day == ToNum(SubSeq(dateStr.s, 4, 5))
             year == ToNum(SubSeq(dateStr.s, 7, 10))
         IN  /\ month \in 1..12
             /\ day \in 1..31
             /\ year \in 1900..2100
             /\ NewDate(year, month - 1, day) = <<year, month - 1, day>>

\* rule.length comparisons: the number a rule holds
RuleNumber(rule) == IF rule.t = "number" THEN ToNum(rule.s) ELSE 0

\* the error of the pattern rule
PatternMessage(rules, isZh) ==
    IF Truthy(GetProp(rules, kErrorMessageZh)) /\ isZh
    THEN JsString(GetProp(rules, kErrorMessageZh))
    ELSE IF Truthy(GetProp(rules, kErrorMessageEn))
         THEN JsString(GetProp(rules, kErrorMessageEn))
         ELSE Message(isZh, <<"u683C", "u5F0F", "u65E0", "u6548">>, <<"I", "n", "v", "a", "l", "i", "d", " ", "f", "o", "r", "m", "a", "t">>)

\* the rules of validateField after the two early returns, each giving the
\* errors it pushes
FormatErrors(fieldId, value, rules, isZh) ==
    LET text == JsString(value)
        isString == value.t = "string"
        type == GetProp(rules, kType)
        minLength == GetProp(rules, kMinLength)
        maxLength == GetProp(rules, kMaxLength)
        pattern == GetProp(rules, kPattern)
    IN  (IF Truthy(pattern) /\ isString /\ ~patternRegex(JsString(pattern), text)
         THEN <<PatternMessage(rules, isZh)>> ELSE <<>>)
        \o (IF Truthy(minLength) /\ isString /\ Len(text) < RuleNumber(minLength)
            THEN <<Message(isZh,
                           <<"u5FC5", "u987B", "u81F3", "u5C11", "u5305", "u542B">> \o JsString(minLength) \o <<"u4E2A", "u5B57", "u7B26">>,
                           <<"M", "u", "s", "t", " ", "b", "e", " ", "a", "t", " ", "l", "e", "a", "s", "t", " ">> \o JsString(minLength) \o <<" ", "c", "h", "a", "r", "a", "c", "t", "e", "r", "s">>)>>
            ELSE <<>>)
        \o (IF Truthy(maxLength) /\ isString /\ Len(text) > RuleNumber(maxLength)
            THEN <<Message(isZh,
                           <<"u4E0D", "u80FD", "u8D85", "u8FC7">> \o JsString(maxLength) \o <<"u4E2A", "u5B57", "u7B26">>,
                           <<"M", "u", "s", "t", " ", "n", "o", "t", " ", "e", "x", "c", "e", "e", "d", " ">> \o JsString(maxLength) \o <<" ", "c", "h", "a", "r", "a", "c", "t", "e", "r", "s">>)>>
            ELSE <<>>)
        \o (IF (StrictEq(type, Str(<<"e", "m", "a", "i", "l">>)) \/ includes(fieldId, <<"e", "m", "a", "i", "l">>))
               /\ ~emailRegex(text)
            THEN <<Message(isZh, <<"u8BF7", "u8F93", "u5165", "u6709", "u6548", "u7684", "u7535", "u5B50", "u90AE", "u4EF6", "u5730", "u5740">>,
                           <<"P", "l", "e", "a", "s", "e", " ", "e", "n", "t", "e", "r", " ", "a", " ", "v", "a", "l", "i", "d", " ", "e", "m", "a", "i", "l", " ", "a", "d", "d", "r", "e", "s", "s">>)>>
            ELSE <<>>)
        \o (IF (StrictEq(type, Str(<<"p", "h", "o", "n", "e">>)) \/ includes(fieldId, <<"p", "h", "o", "n", "e">>))
               /\ (~phoneRegex(text) \/ Len(digitsOnly(text)) < 10)
            THEN <<Message(isZh, <<"u8BF7", "u8F93", "u5165", "u6709", "u6548", "u7684", "u7535", "u8BDD", "u53F7", "u7801">>,
                           <<"P", "l", "e", "a", "s", "e", " ", "e", "n", "t", "e", "r", " ", "a", " ", "v", "a", "l", "i", "d", " ", "p", "h", "o", "n", "e", " ", "n", "u", "m", "b", "e", "r">>)>>
            ELSE <<>>)
        \o (IF (StrictEq(type, Str(<<"d", "a", "t", "e">>)) \/ includes(fieldId, <<"d", "a", "t", "e">>)
                \/ includes(fieldId, <<"b", "i", "r", "t", "h">>))
               /\ ~validateDate(value, GetProp(rules, kFormat))
            THEN <<Message(isZh, <<"u8BF7", "u8F93", "u5165", "u6709", "u6548", "u7684", "u65E5", "u671F", " ", "(", "M", "M", "/", "D", "D", "/", "Y", "Y", "Y", "Y", ")">>,
                           <<"P", "l", "e", "a", "s", "e", " ", "e", "n", "t", "e", "r", " ", "a", " ", "v", "a", "l", "i", "d", " ", "d", "a", "t", "e", " ", "(", "M", "M", "/", "D", "D", "/", "Y", "Y", "Y", "Y", ")">>)>>
            ELSE <<>>)
        \o (IF (includes(fieldId, <<"a", "l", "i", "e", "n", "_", "n", "u", "m", "b", "e", "r">>) \/ includes(fieldId, <<"a", "_", "n", "u", "m", "b", "e", "r">>))
               /\ Truthy(value) /\ ~aNumberRegex(toUpperCase(text))
            THEN <<Message(isZh, <<"A", "u53F7", "u7801", "u683C", "u5F0F", "u5E94", "u4E3A", " ", "A", " ", "u540E", "u8DDF", "8", "u6216", "9", "u4F4D", "u6570", "u5B57">>,
                           <<"A", "-", "N", "u", "m", "b", "e", "r", " ", "f", "o", "r", "m", "a", "t", " ", "s", "h", "o", "u", "l", "d", " ", "b", "e", " ", "A", " ", "f", "o", "l", "l", "o", "w", "e", "d", " ", "b", "y", " ", "8", " ", "o", "r", " ", "9", " ", "d", "i", "g", "i", "t", "s">>)>>
            ELSE <<>>)
        \o (IF includes(fieldId, <<"i", "9", "4">>) /\ Truthy(value) /\ ~i94Regex(text)
            THEN <<Message(isZh, <<"I", "-", "9", "4", "u53F7", "u7801", "u5E94", "u4E3A", "1", "1", "u4F4D", "u6570", "u5B57">>,
                           <<"I", "-", "9", "4", " ", "n", "u", "m", "b", "e", "r", " ", "s", "h", "o", "u", "l", "d", " ", "b", "e", " ", "1", "1", " ", "d", "i", "g", "i", "t", "s">>)>>
            ELSE <<>>)
        \o (IF includes(fieldId, <<"s", "s", "n">>) /\ Truthy(value) /\ ~ssnRegex(text)
            THEN <<Message(isZh, <<"S", "S", "N", "u683C", "u5F0F", "u5E94", "u4E3A", " ", "X", "X", "X", "-", "X", "X", "-", "X", "X", "X", "X">>,
                           <<"S", "S", "N", " ", "f", "o", "r", "m", "a", "t", " ", "s", "h", "o", "u", "l", "d", " ", "b", "e", " ", "X", "X", "X", "-", "X", "X", "-", "X", "X", "X", "X">>)>>
            ELSE <<>>)
        \o (IF includes(fieldId, <<"z", "i", "p">>) /\ Truthy(value) /\ ~zipRegex(text)
            THEN <<Message(isZh, <<"u90AE", "u653F", "u7F16", "u7801", "u683C", "u5F0F", "u5E94", "u4E3A", " ", "X", "X", "X", "X", "X", " ", "u6216", " ", "X", "X", "X", "X", "X", "-", "X", "X", "X", "X">>,
                           <<"Z", "I", "P", " ", "c", "o", "d", "e", " ", "f", "o", "r", "m", "a", "t", " ", "s", "h", "o", "u", "l", "d", " ", "b", "e", " ", "X", "X", "X", "X", "X", " ", "o", "r", " ", "X", "X", "X", "X", "X", "-", "X", "X", "X", "X">>)>>
            ELSE <<>>)
        \o (IF includes(fieldId, <<"e", "l", "i", "g", "i", "b", "i", "l", "i", "t", "y", "_", "c", "a", "t", "e", "g", "o", "r", "y">>) /\ Truthy(value)
               /\ ~categoryRegex(text)
            THEN <<Message(isZh, <<"u8D44", "u683C", "u7C7B", "u522B", "u683C", "u5F0F", "u5E94", "u4E3A", " ", "(", "a", ")", "(", "8", ")", " ", "u6216", " ", "(", "c", ")", "(", "1", "7", ")", "(", "i", "i", "i", ")">>,
                           <<"E", "l", "i", "g", "i", "b", "i", "l", "i", "t", "y", " ", "c", "a", "t", "e", "g", "o", "r", "y", " ", "f", "o", "r", "m", "a", "t", " ", "s", "h", "o", "u", "l", "d", " ", "b", "e", " ", "(", "a", ")", "(", "8", ")", " ", "o", "r", " ", "(", "c", ")", "(", "1", "7", ")", "(", "i", "i", "i", ")">>)>>
            ELSE <<>>)

\* the calls of validateField that end in a TypeError: fieldId.includes on
\* an absent field id, value.replace and value.toUpperCase on a value that
\* is not a string
FormatRaises(fieldId, value, rules) ==
    \/ fieldId = <<>>
    \/ /\ StrictEq(GetProp(rules, kType), Str(<<"p", "h", "o", "n", "e">>)) \/ includes(fieldId, <<"p", "h", "o", "n", "e">>)
       /\ value.t # "string"
    \/ /\ includes(fieldId, <<"a", "l", "i", "e", "n", "_", "n", "u", "m", "b", "e", "r">>) \/ includes(fieldId, <<"a", "_", "n", "u", "m", "b", "e", "r">>)
       /\ Truthy(value)
       /\ value.t # "string"

\* a validateField whose required check pushes its message and goes on
validateFieldNoEarlyReturn(fieldId, value, rules, isZh) ==
    LET missing == Truthy(GetProp(rules, kRequired))
                   /\ (IsNullish(value) \/ StrictEq(value, Str(<<>>)))
        first == IF missing
                 THEN <<Message(isZh, <<"u6B64", "u5B57", "u6BB5", "u4E3A", "u5FC5", "u586B", "u9879">>, <<"T", "h", "i", "s", " ", "f", "i", "e", "l", "d", " ", "i", "s", " ", "r", "e", "q", "u", "i", "r", "e", "d">>)>>
                 ELSE <<>>
    IN  IF ~Truthy(value) /\ ~Truthy(GetProp(rules, kRequired))
        THEN [isValid |-> TRUE, errors |-> <<>>, raised |-> FALSE]
        ELSE IF FormatRaises(fieldId, value, rules)
        THEN [isValid |-> FALSE, errors |-> <<>>, raised |-> TRUE]
        ELSE [isValid |-> first \o FormatErrors(fieldId, value, rules, isZh) = <<>>,
              errors |-> first \o FormatErrors(fieldId, value, rules, isZh),
              raised |-> FALSE]

\* FormValidator.validateField(fieldId, value, rules)
validateField(fieldId, value, rules, isZh) ==
    IF Truthy(GetProp(rules, kRequired))
       /\ (IsNullish(value) \/ StrictEq(value, Str(<<>>)))
    THEN [isValid |-> FALSE,
          errors |-> <<Message(isZh, <<"u6B64", "u5B57", "u6BB5", "u4E3A", "u5FC5", "u586B", "u9879">>, <<"T", "h", "i", "s", " ", "f", "i", "e", "l", "d", " ", "i", "s", " ", "r", "e", "q", "u", "i", "r", "e", "d">>)>>,
          raised |-> FALSE]
    ELSE IF ~Truthy(value) /\ ~Truthy(GetProp(rules, kRequired))
    THEN [isValid |-> TRUE, errors |-> <<>>, raised |-> FALSE]
    ELSE IF FormatRaises(fieldId, value, rules)
    THEN [isValid |-> FALSE, errors |-> <<>>, raised |-> TRUE]
    ELSE [isValid |-> FormatErrors(fieldId, value, rules, isZh) = <<>>,
          errors |-> FormatErrors(fieldId, value, rules, isZh),
          raised |-> FALSE]

\* the rules object validateSection hands to validateField for one field:
\* field.validation itself when there is one, after the three assignments
SectionRules(field) ==
    LET rules == IF Truthy(field.validation) THEN field.validation ELSE EmptyObj
        r1 == IF Truthy(field.required) THEN PutProp(rules, kRequired, field.required)
              ELSE rules
        r2 == IF Truthy(field.max_length) THEN PutProp(r1, kMaxLength, field.max_length)
              ELSE r1
    IN  IF field.type # "" THEN PutProp(r2, kType, Str(TypeText[field.type])) ELSE r2

\* the descriptor after its turn in the loop: the assignments went to its
\* own validation object
AfterValidation(field) ==
    IF Truthy(field.validation) THEN [field EXCEPT !.validation = SectionRules(field)]
    ELSE field

\* a loop that hands validateField a copy of the rules
AfterValidationCopied(field) == field

sInvalidConfiguration == <<"I", "n", "v", "a", "l", "i", "d", " ", "c", "o", "n", "f", "i", "g", "u", "r", "a", "t", "i", "o", "n">>

\* the loop of validateSection from the i-th field on; acc is
\* [isValid, errors, general, raised, fields]
RECURSIVE ValidateFrom(_, _, _, _)
ValidateFrom(data, isZh, i, acc) ==
    IF i > Len(acc.fields) \/ acc.raised THEN acc
    ELSE LET field == acc.fields[i]
             value == getNestedValue(data, field.data_path)
             result == validateField(field.field_id, value, SectionRules(field), isZh)
             errors == IF result.raised \/ result.isValid THEN acc.errors
                       ELSE [k \in (DOMAIN acc.errors) \cup {field.field_id} |->
                                IF k = field.field_id THEN result.errors ELSE acc.errors[k]]
         IN  ValidateFrom(data, isZh, i + 1,
                          [isValid |-> acc.isValid /\ result.isValid,
                           errors |-> errors,
                           general |-> <<>>,
                           raised |-> result.raised,
                           fields |-> [acc.fields EXCEPT ![i] = AfterValidation(field)]])

\* FormValidator.validateSection(data, config), config a part of the
\* schema: the result, and the fields of the part as the call leaves them
validateSection(data, part, isZh) ==
    IF ~part.hasFields
    THEN [isValid |-> FALSE, errors |-> EmptyMap, general |-> sInvalidConfiguration,
          raised |-> FALSE, fields |-> part.fields]
    ELSE ValidateFrom(data, isZh, 1,
                      [isValid |-> TRUE, errors |-> EmptyMap, general |-> <<>>,
                       raised |-> FALSE, fields |-> part.fields])

NoValidation ==
    [isValid |-> TRUE, errors |-> EmptyMap, general |-> <<>>, raised |-> FALSE, part |-> 0]

fEmail == <<"e", "m", "a", "i", "l">>

fBirthDate == <<"b", "i", "r", "t", "h", "_", "d", "a", "t", "e">>

fPhone == <<"d", "a", "y", "_", "p", "h", "o", "n", "e">>

sMail == <<"a", "@", "b", ".", "c">>

\* schemas with rules: a required e-mail address with a validation object
\* and a length limit; a pattern with its own message and a birth date
\* without a validation object; a part without fields and a telephone
\* number
RuledSchemas ==
    { OnePart(<< Ruled(Desc(fEmail, pathV, nStatus, <<>>, "Text Input", Undefined),
                       Bool(TRUE), Num(5),
                       Obj(<< <<kMinLength, Num(2)>> >>)),
                 Ruled(Desc(f2, pathW, n1a, <<>>, "Checkbox", MapChecked),
                       Undefined, Undefined, Undefined) >>),
      OnePart(<< Ruled(Desc(f1, pathV, nStatus, <<>>, "", Undefined),
                       Undefined, Undefined,
                       Obj(<< <<kPattern, Str(sLettersOnly)>>,
                              <<kErrorMessageEn, Str(<<"L", "e", "t", "t", "e", "r", "s", " ", "o", "n", "l", "y">>)>> >>)),
                 Ruled(Desc(fBirthDate, pathW, <<>>, n27, "Date Input", Undefined),
                       Bool(TRUE), Undefined, Undefined) >>),
      [loaded |-> TRUE,
       parts |-> << [hasFields |-> FALSE, fields |-> <<>>],
                    [hasFields |-> TRUE,
                     fields |-> << Ruled(Desc(fPhone, pathV, <<>>, <<>>, "Text Input",
                                              Undefined),
                                         Undefined, Undefined, EmptyObj) >>] >>] }

\* the profiles the validator is given
ValidatedProfiles ==
    { ProfileOf(v, w) :
        v \in {Undefined, Str(<<>>), Str(sMail), Str(sOther), Bool(TRUE)},
        w \in {Bool(TRUE), Str(sUs1), Str(sIso1)} }

(***************************************************************************)
(* The service worker (part_002).  A request is [method, origin, path]; a  *)
(* response is [status, type, body], body naming the fetch event that      *)
(* brought it (0: the install step).  A cache maps the paths it holds to   *)
(* responses.                                                              *)
(***************************************************************************)
STATIC_CACHE == "form-static-v1"

RUNTIME_CACHE == "form-runtime-v1"

\* caches.keys(): the static cache is opened at install, the runtime cache
\* at the first put
CacheOrder == <<STATIC_CACHE, RUNTIME_CACHE>>

pOffline == <<"/", "o", "f", "f", "l", "i", "n", "e", ".", "h", "t", "m", "l">>

pIndex == <<"/", "i", "n", "d", "e", "x", ".", "h", "t", "m", "l">>

pAppJs == <<"/", "j", "s", "/", "a", "p", "p", ".", "j", "s">>

STATIC_ASSETS == {<<"/">>, pIndex, <<"/", "c", "s", "s", "/", "s", "t", "y", "l", "e", ".", "c", "s", "s">>, pAppJs, <<"/", "m", "a", "n", "i", "f", "e", "s", "t", ".", "j", "s", "o", "n">>, pOffline}

\* str.endsWith(suffix)
endsWith(str, suffix) ==
    /\ Len(suffix) <= Len(str)
    /\ SubSeq(str, Len(str) - Len(suffix) + 1, Len(str)) = suffix

staticExtensions ==
    << <<".", "j", "s">>, <<".", "c", "s", "s">>, <<".", "p", "n", "g">>, <<".", "j", "p", "g">>, <<".", "j", "p", "e", "g">>, <<".", "g", "i", "f">>, <<".", "s", "v", "g">>, <<".", "w", "o", "f", "f">>,
       <<".", "w", "o", "f", "f", "2">>, <<".", "t", "t", "f">> >>

\* an isStaticAsset that looks for the extension anywhere in the path
isStaticAssetAnywhere(pathname) ==
    \E i \in DOMAIN staticExtensions : includes(pathname, staticExtensions[i])

\* isStaticAsset(pathname)
isStaticAsset(pathname) ==
    \E i \in DOMAIN staticExtensions : endsWith(pathname, staticExtensions[i])

\* the fetch listener: the strategy whose promise is handed to
\* event.respondWith, or "none" when the listener returns without answering
fetchStrategy(request) ==
    IF request.origin # "same" THEN "none"
    ELSE IF request.method = "GET"
    THEN IF isStaticAsset(request.path) THEN "cacheFirst"
         ELSE IF includes(request.path, <<"/", "a", "p", "i", "/">>) THEN "networkFirst"
         ELSE "staleWhileRevalidate"
    ELSE IF request.method = "POST" THEN "networkOnly"
    ELSE "none"

\* the cache a strategy writes to
StrategyCache(strategy) == IF strategy = "cacheFirst" THEN STATIC_CACHE ELSE RUNTIME_CACHE

NoResponse == [status |-> 0, type |-> "none", body |-> 0]

Response(status, type, body) == [status |-> status, type |-> type, body |-> body]

\* a test that lets every response into the cache
cacheableAlways(response) == TRUE

\* !(!response || response.status !== 200 || response.type === 'error')
cacheable(response) ==
    /\ response # NoResponse
    /\ response.status = 200
    /\ response.type # "error"

\* caches.match(path): the first cache, in the order of caches.keys(), that
\* holds the path
RECURSIVE MatchFrom(_, _, _)
MatchFrom(caches, path, i) ==
    IF i > Len(CacheOrder) THEN NoResponse
    ELSE IF path \in DOMAIN caches[CacheOrder[i]] THEN caches[CacheOrder[i]][path]
    ELSE MatchFrom(caches, path, i + 1)

cachesMatch(caches, path) == MatchFrom(caches, path, 1)

\* cache.put(request, responseClone)
cachePut(caches, put) ==
    [caches EXCEPT ![put.cache] =
        [p \in (DOMAIN @) \cup {put.request.path} |->
            IF p = put.request.path THEN put.response ELSE @[p]]]

\* the caches after the install step: cache.addAll(STATIC_ASSETS)
InstalledCaches ==
    [name \in {STATIC_CACHE, RUNTIME_CACHE} |->
        IF name = STATIC_CACHE
        THEN [p \in STATIC_ASSETS |-> Response(200, "basic", 0)]
        ELSE EmptyMap]

\* new Response(JSON.stringify({ error: ... }), { status: 503, ... })
Unavailable == Response(503, "default", 0)

NoEvent ==
    [pc |-> "idle", request |-> [method |-> "GET", origin |-> "same", path |-> <<>>],
     strategy |-> "none", cached |-> NoResponse, answer |-> NoResponse,
     answered |-> FALSE, failed |-> FALSE]

Request(method, origin, path) == [method |-> method, origin |-> origin, path |-> path]

\* requests: a script, an image under /api/, an API call, a page, a JSON
\* file whose name holds "/api" and ".js", a POST, a PUT, a script of
\* another origin
Requests ==
    { Request("GET", "same", pAppJs),
      Request("GET", "same", <<"/", "a", "p", "i", "/", "l", "o", "g", "o", ".", "p", "n", "g">>),
      Request("GET", "same", <<"/", "a", "p", "i", "/", "d", "a", "t", "a">>),
      Request("GET", "same", pIndex),
      Request("GET", "same", <<"/", "a", "p", "i", ".", "j", "s", "o", "n">>),
      Request("POST", "same", <<"/", "a", "p", "i", "/", "d", "a", "t", "a">>),
      Request("PUT", "same", <<"/", "a", "p", "i", "/", "d", "a", "t", "a">>),
      Request("GET", "cross", pAppJs) }

\* what the network answers: found, not found, a server error, a network
\* error response
NetworkResponses == { <<200, "basic">>, <<404, "basic">>, <<500, "basic">>, <<0, "error">> }

(***************************************************************************)
(* DeviceDetector (part_003).  The detector is [userAgent, pixelRatio,     *)
(* deviceType, orientation, listeners]; the window is [width, height].     *)
(* Time is counted in ms; a timer is the instant it is due.                *)
(***************************************************************************)
\* setTimeout(..., 250)
ResizeDelay == 250

\* the clock is read twice in a delay, and whenever a timer is due
TickMs == ResizeDelay \div 2

NoTimer == -1

\* /mobile|android|iphone|ipod|blackberry|iemobile|opera mini/i.test(ua)
isMobileUA(ua) ==
    \E word \in {<<"m", "o", "b", "i", "l", "e">>, <<"a", "n", "d", "r", "o", "i", "d">>, <<"i", "p", "h", "o", "n", "e">>, <<"i", "p", "o", "d">>, <<"b", "l", "a", "c", "k", "b", "e", "r", "r", "y">>,
                 <<"i", "e", "m", "o", "b", "i", "l", "e">>, <<"o", "p", "e", "r", "a", " ", "m", "i", "n", "i">>} : includes(toLowerCase(ua), word)

\* /ipad|android|kindle|playbook|silk|nexus 7|nexus 10/i.test(ua)
isTabletUA(ua) ==
    \E word \in {<<"i", "p", "a", "d">>, <<"a", "n", "d", "r", "o", "i", "d">>, <<"k", "i", "n", "d", "l", "e">>, <<"p", "l", "a", "y", "b", "o", "o", "k">>, <<"s", "i", "l", "k">>, <<"n", "e", "x", "u", "s", " ", "7">>,
                 <<"n", "e", "x", "u", "s", " ", "1", "0">>} : includes(toLowerCase(ua), word)

\* /windows phone|zune/i.test(ua)
isWindowsPhone(ua) ==
    \E word \in {<<"w", "i", "n", "d", "o", "w", "s", " ", "p", "h", "o", "n", "e">>, <<"z", "u", "n", "e">>} : includes(toLowerCase(ua), word)

\* a detectDevice that goes by the user agent alone
detectDeviceByAgent(ua, ratio, w) ==
    IF isWindowsPhone(ua) \/ (isMobileUA(ua) /\ ~isTabletUA(ua)) THEN "mobile"
    ELSE IF isTabletUA(ua) THEN "tablet"
    ELSE "desktop"

\* detectDevice(): screenDiagonal > 6 is sqrt(w^2 + h^2) / pixelRatio > 6
detectDevice(ua, ratio, w) ==
    LET minDimension == IF w.width < w.height THEN w.width ELSE w.height
        diagonalOver6 == w.width * w.width + w.height * w.height > 36 * ratio * ratio
    IN  IF isWindowsPhone(ua) \/ (isMobileUA(ua) /\ ~isTabletUA(ua) /\ minDimension < 768)
        THEN "mobile"
        ELSE IF isTabletUA(ua)
                \/ (minDimension >= 600 /\ minDimension < 1024 /\ diagonalOver6)
        THEN "tablet"
        ELSE IF minDimension >= 1024 THEN "desktop"
        ELSE IF isMobileUA(ua) THEN "mobile"
        ELSE "desktop"

\* detectOrientation()
detectOrientation(w) == IF w.height > w.width THEN "portrait" ELSE "landscape"

\* new DeviceDetector(): init() detects the device and the orientation
NewDetector(ua, ratio, w) ==
    [userAgent |-> ua, pixelRatio |-> ratio, deviceType |-> detectDevice(ua, ratio, w),
     orientation |-> detectOrientation(w), listeners |-> <<>>]

\* a notifyListeners that stops after the first listener
notifyFirstListenerOnly(d, eventType) ==
    IF d.listeners = <<>> THEN <<>>
    ELSE << [listener |-> d.listeners[1], type |-> eventType, deviceType |-> d.deviceType,
             orientation |-> d.orientation] >>

\* notifyListeners(eventType, data): the calls made, in order; what a
\* listener throws is caught
notifyDeviceListeners(d, eventType) ==
    [i \in 1..Len(d.listeners) |->
        [listener |-> d.listeners[i], type |-> eventType, deviceType |-> d.deviceType,
         orientation |-> d.orientation]]

\* the callback of the resize timer: the detector after it, and the calls
resizeCallback(d, w) ==
    LET detected == [d EXCEPT !.deviceType = detectDevice(d.userAgent, d.pixelRatio, w),
                              !.orientation = detectOrientation(w)]
    IN  [detector |-> detected,
         calls |-> IF d.deviceType # detected.deviceType
                   THEN notifyDeviceListeners(detected, "devicechange")
                   ELSE notifyDeviceListeners(detected, "orientationchange")]

\* the orientationchange listener of the window
orientationCallback(d, w) ==
    LET detected == [d EXCEPT !.orientation = detectOrientation(w)]
    IN  [detector |-> detected,
         calls |-> IF d.orientation # detected.orientation
                   THEN notifyDeviceListeners(detected, "orientationchange")
                   ELSE <<>>]

\* user agents: a desktop browser, a telephone, a tablet
UserAgents == {<<"X", "1", "1", ";", " ", "L", "i", "n", "u", "x">>, <<"i", "P", "h", "o", "n", "e", " ", "M", "o", "b", "i", "l", "e">>, <<"i", "P", "a", "d">>}

Window(width, height) == [width |-> width, height |-> height]

\* window sizes: a large one, one in the tablet range, a narrow upright one
Windows == {Window(1920, 1080), Window(800, 600), Window(500, 900)}

Subscribers == {"returns", "throws"}

NoBurst ==
    [events |-> 0, last |-> 0, detections |-> 0, firedAt |-> 0,
     previousType |-> "", calls |-> <<>>, listeners |-> <<>>]

(***************************************************************************)
(* Properties of the FieldMapper.                                          *)
(***************************************************************************)
\* a string of the shape YYYY-MM-DD that names a calendar date
ValidIso(str) ==
    /\ IsIsoShape(str)
    /\ ToNum(SubSeq(str, 6, 7)) \in 1..12
    /\ ToNum(SubSeq(str, 9, 10)) \in
           1..DaysIn(ToNum(SubSeq(str, 1, 4)), ToNum(SubSeq(str, 6, 7)) - 1)

\* the descriptor types with a lossless parse/format pair, and a scalar of
\* the kind the type holds
C1_Lossless(type, orig) ==
    \/ type = "Text Input" /\ orig.t = "string"
    \/ type = "Checkbox" /\ orig.t = "boolean"
    \/ type = "Date Input" /\ orig.t = "string" /\ ValidIso(orig.s)

\* C1: mapFormToProfile(mapProfileToForm(profile), profile') writes back, for
\* every Text Input, Checkbox and ISO Date Input descriptor, with or without
\* a value_mapping, the scalar that mapProfileToForm read at data_path.
C1_RoundTrip ==
    (mapOp.kind = "toProfile" /\ ~mapOp.threw) =>
        \A i \in 1..Len(mappedForm) :
            LET e == mappedForm[i]
                orig == getNestedValue(mapOp.source, e.field.data_path)
            IN  C1_Lossless(e.field.type, orig) =>
                    \E j \in 1..Len(mapOp.writes) :
                        /\ mapOp.writes[j].fieldId = e.fieldId
                        /\ mapOp.writes[j].value = orig

\* the descriptors of the loaded schema that mapProfileToForm does not skip
Mappable(cfg) ==
    IF ~cfg.loaded THEN {}
    ELSE { AllFields(cfg.parts)[i] : i \in
             { j \in 1..Len(AllFields(cfg.parts)) :
                 /\ AllFields(cfg.parts)[j].field_id # <<>>
                 /\ AllFields(cfg.parts)[j].data_path # <<>> } }

\* C2: every Checkbox or Radio descriptor with field_id and data_path has its
\* field_id as a key of mapProfileToForm's output, whatever the value is.
C2_ChoiceFieldsPresent ==
    (mapOp.kind = "toForm") =>
        \A d \in Mappable(config) :
            d.type \in {"Checkbox", "Radio"} =>
                \E i \in 1..Len(mappedForm) : mappedForm[i].fieldId = d.field_id

\* C2 (case): a Checkbox or Radio descriptor whose value is missing or null
\* is in the output
C2_EmptyChoiceMapped ==
    /\ mapOp.kind = "toForm"
    /\ \E d \in Mappable(config) :
           /\ d.type \in {"Checkbox", "Radio"}
           /\ getNestedValue(applicantProfile, d.data_path).t \in {"undefined", "null"}
           /\ \E i \in 1..Len(mappedForm) : mappedForm[i].fieldId = d.field_id

\* C3: every entry of mapProfileToForm's output belongs to a descriptor with
\* field_id and data_path, and its formatted value is a non-empty string or
\* its descriptor is a Checkbox or a Radio.
C3_FormattedNonEmptyOrChoice ==
    (mapOp.kind # "none") =>
        \A i \in 1..Len(mappedForm) :
            /\ \E d \in Mappable(config) : d.field_id = mappedForm[i].fieldId
            /\ \/ mappedForm[i].value.t = "string" /\ mappedForm[i].value.s # <<>>
               \/ mappedForm[i].field.type \in {"Checkbox", "Radio"}

\* C3 (amended): every entry of mapProfileToForm's output belongs to a
\* descriptor with field_id and data_path, its formatted value is a string
\* (possibly empty), and the raw value read at data_path is defined, non-null
\* and not the empty string, or its descriptor is a Checkbox or a Radio.
C3_RawNonEmptyOrChoice ==
    (mapOp.kind # "none") =>
        \A i \in 1..Len(mappedForm) :
            LET e == mappedForm[i]
                raw == getNestedValue(mapOp.source, e.field.data_path)
            IN  /\ \E d \in Mappable(config) : d.field_id = e.fieldId /\ d = e.field
                /\ e.value.t = "string"
                /\ \/ raw.t \notin {"undefined", "null"} /\ raw # Str(<<>>)
                   \/ e.field.type \in {"Checkbox", "Radio"}

\* C3 (case): an unparseable Date Input string is mapped to the empty string
C3_UnparseableDateMapped ==
    /\ mapOp.kind = "toForm"
    /\ \E i \in 1..Len(mappedForm) :
           /\ mappedForm[i].field.type = "Date Input"
           /\ mappedForm[i].originalValue = Str(sOther)
           /\ mappedForm[i].value = Str(<<>>)

\* the property key a value names: its string form
C6_Key(value) ==
    CASE value.t = "string" -> value.s
      [] value.t = "boolean" -> IF value.b THEN sTrue ELSE sFalse
      [] value.t = "null" -> sNull
      [] OTHER -> sUndefined

C7_Unparseable(arg) ==
    \/ arg.t \notin {"string", "date"}
    \/ arg.t = "date" /\ arg.d = InvalidDate
    \/ /\ arg.t = "string"
       /\ ~IsIsoShape(arg.s) /\ ~IsUsShape(arg.s)
       /\ ~HasDigit(arg.s) \/ ~lenientEngine

C22_WrittenPaths(cfg, formData) ==
    IF ~cfg.loaded THEN {}
    ELSE LET fields == AllFields(cfg.parts)
         IN  { fields[i].data_path : i \in
                 { j \in DOMAIN fields :
                     /\ fields[j].field_id # <<>>
                     /\ fields[j].data_path # <<>>
                     /\ HasEntry(formData, fields[j].field_id)
                     /\ EntryOf(formData, fields[j].field_id).value.t # "undefined" } }

\* path a is path b or leads to it
C22_Prefix(a, b) ==
    LET sa == Split(a)
        sb == Split(b)
    IN  Len(sa) <= Len(sb) /\ SubSeq(sb, 1, Len(sa)) = sa

\* q lies along one of the written paths
C22_Along(q, written) == \E w \in written : C22_Prefix(q, w) \/ C22_Prefix(w, q)

\* the paths the profiles are compared at: "p", "p.v", "p.w", "q"
C22_ProbePaths == {kP, pathV, pathW, <<"q">>}

\* C22: mapFormToProfile changes its profile only along the data paths of the
\* descriptors that have field_id, data_path and an entry of formData with a
\* defined value: every path that lies along none of them reads as before,
\* no other top-level key appears, and without a loaded schema the profile
\* comes back as it was.
C22_OnlyMappedPathsChange ==
    (mapOp.kind = "toProfile") =>
        LET written == C22_WrittenPaths(config, mappedForm)
        IN  /\ \A q \in C22_ProbePaths :
                  ~C22_Along(q, written) =>
                      getNestedValue(applicantProfile, q) = getNestedValue(mapOp.target, q)
            /\ \A i \in DOMAIN applicantProfile.o :
                  \/ C22_Along(applicantProfile.o[i], written)
                  \/ \E j \in DOMAIN mapOp.target.o : mapOp.target.o[j] = applicantProfile.o[i]
            /\ written = {} => applicantProfile = mapOp.target
            /\ ~config.loaded => applicantProfile = mapOp.target

\* the profile had p.v and p.w, one of them was written with a new value and
\* the other one is still there
C22_OneLeafWritten ==
    /\ mapOp.kind = "toProfile"
    /\ ~mapOp.threw
    /\ Len(mapOp.writes) = 1
    /\ mapOp.target = mapOp.source
    /\ getNestedValue(mapOp.target, pathV) = Str(<<>>)
    /\ getNestedValue(applicantProfile, pathV) = Str(<<>>)
    /\ getNestedValue(applicantProfile, pathW) # getNestedValue(mapOp.target, pathW)

\* the schema was not loaded and the profile, with both leaves, came back as it was
C22_NoSchemaProfileKept ==
    /\ mapOp.kind = "toProfile"
    /\ ~config.loaded
    /\ Truthy(getNestedValue(applicantProfile, pathV))
    /\ applicantProfile = mapOp.target

(***************************************************************************)
(* PDFProcessor: field names.                                              *)
(***************************************************************************)
IsNotDot(c) == c # "."

\* str.replace(/\./g, '_')
dotsToUnderscores(str) == [i \in 1..Len(str) |-> IF str[i] = "." THEN "_" ELSE str[i]]

\* str.replace(/\./g, '')
dotsRemoved(str) == SelectSeq(str, IsNotDot)

\* buildFieldNameMapping: the static table of item numbers and their name
\* patterns, as the object literal evaluates (a repeated key keeps its first
\* position and its last value)
fieldPatterns ==
    << << <<"1",".","a",".">>,
          << <<"1","a">>,
             <<"1","_","a">>,
             <<"l","a","s","t","_","n","a","m","e">>,
             <<"f","a","m","i","l","y","_","n","a","m","e">>,
             <<"s","u","r","n","a","m","e">>,
             <<"P","a","r","t","2","_","1","a">> >> >>,
       << <<"1",".","b",".">>,
          << <<"1","b">>,
             <<"1","_","b">>,
             <<"f","i","r","s","t","_","n","a","m","e">>,
             <<"g","i","v","e","n","_","n","a","m","e">>,
             <<"P","a","r","t","2","_","1","b">> >> >>,
       << <<"1",".","c",".">>,
          << <<"1","c">>,
             <<"1","_","c">>,
             <<"m","i","d","d","l","e","_","n","a","m","e">>,
             <<"P","a","r","t","2","_","1","c">> >> >>,
       << <<"5",".","a",".">>,
          << <<"5","a">>,
             <<"5","_","a">>,
             <<"m","a","i","l","i","n","g","_","i","n","_","c","a","r","e","_","o","f">>,
             <<"i","n","_","c","a","r","e","_","o","f">> >> >>,
       << <<"5",".","b",".">>,
          << <<"5","b">>,
             <<"5","_","b">>,
             <<"m","a","i","l","i","n","g","_","s","t","r","e","e","t">>,
             <<"s","t","r","e","e","t","_","a","d","d","r","e","s","s">> >> >>,
       << <<"5",".","c",".">>,
          << <<"5","c">>,
             <<"5","_","c">>,
             <<"m","a","i","l","i","n","g","_","a","p","t">>,
             <<"a","p","t">>,
             <<"s","u","i","t","e">>,
             <<"f","l","o","o","r">> >> >>,
       << <<"5",".","d",".">>,
          << <<"5","d">>,
             <<"5","_","d">>,
             <<"m","a","i","l","i","n","g","_","c","i","t","y">>,
             <<"c","i","t","y">> >> >>,
       << <<"5",".","e",".">>,
          << <<"5","e">>,
             <<"5","_","e">>,
             <<"m","a","i","l","i","n","g","_","s","t","a","t","e">>,
             <<"s","t","a","t","e">> >> >>,
       << <<"5",".","f",".">>,
          << <<"5","f">>,
             <<"5","_","f">>,
             <<"m","a","i","l","i","n","g","_","z","i","p">>,
             <<"z","i","p","_","c","o","d","e">>,
             <<"z","i","p","c","o","d","e">> >> >>,
       << <<"8",".">>,
          << <<"8">>,
             <<"a","l","i","e","n","_","n","u","m","b","e","r">>,
             <<"a","_","n","u","m","b","e","r">>,
             <<"a","_","n","u","m","b","e","r","_","8">> >> >>,
       << <<"9",".">>,
          << <<"9">>,
             <<"u","s","c","i","s","_","a","c","c","o","u","n","t","_","n","u","m","b","e","r">>,
             <<"a","c","c","o","u","n","t","_","n","u","m","b","e","r">> >> >>,
       << <<"1","0",".">>,
          << <<"1","0">>,
             <<"s","e","x">>,
             <<"g","e","n","d","e","r">> >> >>,
       << <<"1","1",".">>,
          << <<"1","1">>,
             <<"m","a","r","i","t","a","l","_","s","t","a","t","u","s">> >> >>,
       << <<"1","2",".">>,
          << <<"1","2">>,
             <<"p","r","e","v","i","o","u","s","l","y","_","f","i","l","e","d","_","i","7","6","5">> >> >>,
       << <<"1","3",".","a",".">>,
          << <<"1","3","a">>,
             <<"1","3","_","a">>,
             <<"s","s","a","_","i","s","s","u","e","d","_","c","a","r","d">> >> >>,
       << <<"1","3",".","b",".">>,
          << <<"1","3","b">>,
             <<"1","3","_","b">>,
             <<"s","s","n","_","n","u","m","b","e","r">>,
             <<"s","s","n">> >> >>,
       << <<"1","4",".">>,
          << <<"1","4">>,
             <<"w","a","n","t","_","s","s","a","_","c","a","r","d">> >> >>,
       << <<"1","5",".">>,
          << <<"1","5">>,
             <<"c","o","n","s","e","n","t","_","f","o","r","_","d","i","s","c","l","o","s","u","r","e">> >> >>,
       << <<"2","0",".">>,
          << <<"2","0">>,
             <<"d","a","t","e","_","o","f","_","b","i","r","t","h">>,
             <<"d","o","b">>,
             <<"b","i","r","t","h","_","d","a","t","e">> >> >>,
       << <<"2","1",".","a",".">>,
          << <<"2","1","a">>,
             <<"2","1","_","a">>,
             <<"i","9","4","_","n","u","m","b","e","r">>,
             <<"i","9","4">> >> >>,
       << <<"2","7",".">>,
          << <<"2","7">>,
             <<"e","l","i","g","i","b","i","l","i","t","y","_","c","a","t","e","g","o","r","y">>,
             <<"c","a","t","e","g","o","r","y">> >> >> >>

(***************************************************************************)
(* A document is [fields, drawn]: the interactive form fields in document  *)
(* order, and the static content flattening has burned into the pages.  A  *)
(* field is [name, kind, text, checked], kind one of "text", "checkbox",   *)
(* "dropdown".                                                             *)
(***************************************************************************)
Field(name, kind) == [name |-> name, kind |-> kind, text |-> <<>>, checked |-> FALSE]

\* form.getFields().map(f => f.getName())
FieldNames(doc) == [i \in 1..Len(doc.fields) |-> doc.fields[i].name]

\* the test of buildFieldNameMapping for one field name, lower-cased, and one
\* pattern
PatternMatches(fieldName, pattern) ==
    \/ includes(fieldName, toLowerCase(pattern))
    \/ fieldName = toLowerCase(pattern)
    \/ stripPunctuation(fieldName) = toLowerCase(stripPunctuation(pattern))

\* the fields, by position, that match some pattern of the table row
RowMatches(doc, row) ==
    { i \in 1..Len(doc.fields) :
        LET fieldName == toLowerCase(doc.fields[i].name)
        IN  \E j \in 1..Len(fieldPatterns[row][2]) :
                PatternMatches(fieldName, fieldPatterns[row][2][j]) }

Min(S) == CHOOSE x \in S : \A y \in S : x <= y

\* PDFProcessor.buildFieldNameMapping: item number -> the first matching field
buildFieldNameMapping(doc) ==
    LET rows == { r \in 1..Len(fieldPatterns) : RowMatches(doc, r) # {} }
    IN  [item \in { fieldPatterns[r][1] : r \in rows } |->
            LET r == CHOOSE r \in rows : fieldPatterns[r][1] = item
            IN  doc.fields[Min(RowMatches(doc, r))].name]

(***************************************************************************)
(* PDFProcessor.fillForm: the loop over the resolved fields.  acc is       *)
(* [doc, filledFields, failedFields].                                      *)
(***************************************************************************)
\* form.getTextField(name) / form.getCheckBox(name) return the field of that
\* name and kind, and raise when there is none: 0 stands for the raise
FieldAt(doc, name, kind) ==
    IF \E i \in 1..Len(doc.fields) : doc.fields[i].name = name /\ doc.fields[i].kind = kind
    THEN CHOOSE i \in 1..Len(doc.fields) :
             doc.fields[i].name = name /\ doc.fields[i].kind = kind
    ELSE 0

sCheckedWord == sChecked

sYesWord == <<"Y", "e", "s">>

sInitial == <<"i", "n", "i", "t", "i", "a", "l">>

sReplacement == <<"r", "e", "p", "l", "a", "c", "e", "m", "e", "n", "t">>

sRenewal == <<"r", "e", "n", "e", "w", "a", "l">>

\* the test of the checkbox write after an alias or variant match
checksVariant(value) ==
    \/ StrictEq(value, Bool(TRUE))
    \/ StrictEq(value, Str(sMark))
    \/ StrictEq(value, Str(sCheckedWord))
    \/ StrictEq(value, Str(sYesWord))
    \/ StrictEq(value, Str(sInitial))
    \/ StrictEq(value, Str(sReplacement))
    \/ StrictEq(value, Str(sRenewal))

\* the test of the checkbox write after a fuzzy match
checksFuzzy(value) ==
    \/ StrictEq(value, Bool(TRUE))
    \/ StrictEq(value, Str(sMark))
    \/ StrictEq(value, Str(sCheckedWord))
    \/ StrictEq(value, Str(sYesWord))

\* field.setText(String(value || ''))
SetText(doc, i, value) ==
    [doc EXCEPT !.fields[i].text = IF Truthy(value) THEN JsString(value) ELSE <<>>]

\* checkbox.check() / checkbox.uncheck()
SetChecked(doc, i, on) == [doc EXCEPT !.fields[i].checked = on]

\* the same names with the declared name tried before the alias-table hit
fieldNameVariationsDeclaredFirst(fieldMapping, pdfFieldName) ==
    << pdfFieldName,
       IF pdfFieldName \in DOMAIN fieldMapping THEN fieldMapping[pdfFieldName]
       ELSE pdfFieldName,
       dotsToUnderscores(pdfFieldName),
       dotsRemoved(pdfFieldName),
       toLowerCase(pdfFieldName),
       toUpperCase(pdfFieldName) >>

\* the names tried in turn: the alias-table hit (or the declared name), the
\* declared name, and its four variants
fieldNameVariations(fieldMapping, pdfFieldName) ==
    << IF pdfFieldName \in DOMAIN fieldMapping THEN fieldMapping[pdfFieldName]
       ELSE pdfFieldName,
       pdfFieldName,
       dotsToUnderscores(pdfFieldName),
       dotsRemoved(pdfFieldName),
       toLowerCase(pdfFieldName),
       toUpperCase(pdfFieldName) >>

\* the positions of the variations that name a text field or a checkbox
VariationHits(doc, names) ==
    { k \in 1..Len(names) :
        FieldAt(doc, names[k], "text") # 0 \/ FieldAt(doc, names[k], "checkbox") # 0 }

\* the test of allFieldNames.find(...)
IsSimilar(name, pdfFieldName) ==
    \/ includes(toLowerCase(name), toLowerCase(pdfFieldName))
    \/ includes(toLowerCase(pdfFieldName), toLowerCase(name))
    \/ stripPunctuation(toLowerCase(name)) = stripPunctuation(toLowerCase(pdfFieldName))

SimilarPositions(allFieldNames, pdfFieldName) ==
    { i \in 1..Len(allFieldNames) : IsSimilar(allFieldNames[i], pdfFieldName) }

\* a failure handler that records nothing
UnresolvedDropped(acc, entry) == acc

\* failedFields.push({ fieldId, pdfFieldName, value })
Unresolved(acc, entry) ==
    [acc EXCEPT !.failedFields =
        Append(@, [fieldId |-> entry.fieldId, pdfFieldName |-> entry.pdfFieldName,
                   value |-> entry.value])]

\* the write to the field named fieldName, after a variant match
VariantWrite(acc, entry, fieldName) ==
    IF FieldAt(acc.doc, fieldName, "text") # 0
    THEN [acc EXCEPT
            !.doc = SetText(acc.doc, FieldAt(acc.doc, fieldName, "text"), entry.value),
            !.filledFields = Append(@, [fieldId |-> entry.fieldId, pdfFieldName |-> fieldName,
                                        type |-> "text", value |-> entry.value,
                                        matched |-> FALSE])]
    ELSE [acc EXCEPT
            !.doc = SetChecked(acc.doc, FieldAt(acc.doc, fieldName, "checkbox"),
                               checksVariant(entry.value)),
            !.filledFields = Append(@, [fieldId |-> entry.fieldId, pdfFieldName |-> fieldName,
                                        type |-> "checkbox", value |-> entry.value,
                                        matched |-> FALSE])]

\* a fuzzy stage that writes the field and leaves fieldFound false
FuzzyWriteLeavesUnfound(acc, entry, similarField) ==
    IF FieldAt(acc.doc, similarField, "text") # 0
    THEN Unresolved([acc EXCEPT
            !.doc = SetText(acc.doc, FieldAt(acc.doc, similarField, "text"), entry.value),
            !.filledFields = Append(@, [fieldId |-> entry.fieldId, pdfFieldName |-> similarField,
                                        type |-> "text", value |-> entry.value,
                                        matched |-> TRUE])], entry)
    ELSE Unresolved(acc, entry)

\* the write to the fuzzy-matched field; a field that is neither a text field
\* nor a checkbox leaves the entry unresolved
FuzzyWrite(acc, entry, similarField) ==
    IF FieldAt(acc.doc, similarField, "text") # 0
    THEN [acc EXCEPT
            !.doc = SetText(acc.doc, FieldAt(acc.doc, similarField, "text"), entry.value),
            !.filledFields = Append(@, [fieldId |-> entry.fieldId, pdfFieldName |-> similarField,
                                        type |-> "text", value |-> entry.value,
                                        matched |-> TRUE])]
    ELSE IF FieldAt(acc.doc, similarField, "checkbox") # 0
    THEN [acc EXCEPT
            !.doc = SetChecked(acc.doc, FieldAt(acc.doc, similarField, "checkbox"),
                               checksFuzzy(entry.value)),
            !.filledFields = Append(@, [fieldId |-> entry.fieldId, pdfFieldName |-> similarField,
                                        type |-> "checkbox", value |-> entry.value,
                                        matched |-> TRUE])]
    ELSE Unresolved(acc, entry)

\* one iteration of the loop over Object.entries(formData)
FillEntry(acc, entry, fieldMapping, allFieldNames) ==
    IF entry.pdfFieldName = <<>> THEN acc
    ELSE LET names == fieldNameVariations(fieldMapping, entry.pdfFieldName)
             hits == VariationHits(acc.doc, names)
             similar == SimilarPositions(allFieldNames, entry.pdfFieldName)
         IN  IF hits # {} THEN VariantWrite(acc, entry, names[Min(hits)])
             ELSE IF similar # {} /\ allFieldNames[Min(similar)] # <<>>
                  THEN FuzzyWrite(acc, entry, allFieldNames[Min(similar)])
                  ELSE Unresolved(acc, entry)

RECURSIVE FillLoop(_, _, _, _)
FillLoop(acc, entries, fieldMapping, allFieldNames) ==
    IF entries = <<>> THEN acc
    ELSE FillLoop(FillEntry(acc, Head(entries), fieldMapping, allFieldNames),
                  Tail(entries), fieldMapping, allFieldNames)

\* a flatten that draws the fields and leaves them interactive
flattenKeepsFields(doc) == [fields |-> doc.fields, drawn |-> doc.drawn \o doc.fields]

\* form.flatten(): every field becomes static page content
flatten(doc) == [fields |-> <<>>, drawn |-> doc.drawn \o doc.fields]

\* the synchronous part of fillForm on the cloned document: build the alias
\* table, fill, flatten when asked
fillDocument(doc, formData, doFlatten) ==
    LET filled == FillLoop([doc |-> doc, filledFields |-> <<>>, failedFields |-> <<>>],
                           formData, buildFieldNameMapping(doc), FieldNames(doc))
    IN  [filled EXCEPT !.doc = IF doFlatten THEN flatten(filled.doc) ELSE filled.doc]

(***************************************************************************)
(* PDFProcessor.createPDFFromScratch.  The document is [pages, title,      *)
(* lines]: the number of pages, and the texts drawn, each with the page it *)
(* was drawn on, its vertical position and the number of pages the         *)
(* document had when it was drawn.                                         *)
(***************************************************************************)
\* pdfDoc.addPage([612, 792])
PageHeight == 792

\* y: height - 50 of the title, and of the first line of an added page
TopOffset == 50

\* let yPosition = height - 100
FirstLineOffset == 100

\* if (yPosition < 50)
BottomMargin == 50

\* const lineHeight = 20
LineHeight == 20

sColonSpace == <<":", " ">>

\* a resolved field as createPDFFromScratch reads it: fieldData.field may
\* carry a field_label_en
Listed(fieldId, field_label_en, value) ==
    [fieldId |-> fieldId, field_label_en |-> field_label_en, value |-> value]

\* `${label}: ${value}`
LineText(entry) ==
    (IF entry.field_label_en # <<>> THEN entry.field_label_en ELSE entry.fieldId)
        \o sColonSpace
        \o (IF Truthy(entry.value) THEN JsString(entry.value) ELSE <<>>)

\* the document after PDFDocument.create(), addPage and the title
TitledDocument ==
    [pages |-> 1, yPosition |-> PageHeight - FirstLineOffset,
     title |-> [page |-> 1, y |-> PageHeight - TopOffset], lines |-> <<>>]

\* one iteration of the loop: a page is added when the position is below the
\* margin, and the line is drawn with page.drawText, page being the first page
DrawLine(doc, entry) ==
    LET added == doc.yPosition < BottomMargin
        pages == IF added THEN doc.pages + 1 ELSE doc.pages
        y == IF added THEN PageHeight - TopOffset ELSE doc.yPosition
    IN  [doc EXCEPT !.pages = pages,
                    !.yPosition = y - LineHeight,
                    !.lines = Append(@, [page |-> 1, y |-> y, pages |-> pages,
                                         text |-> LineText(entry)])]

RECURSIVE DrawLines(_, _)
DrawLines(doc, entries) ==
    IF entries = <<>> THEN doc
    ELSE DrawLines(DrawLine(doc, Head(entries)), Tail(entries))

sName == <<"N", "a", "m", "e">>

\* n resolved fields f1, f2, ...; the odd ones carry a label
ListedFields(n, value) ==
    [k \in 1..n |-> Listed(<<"f">> \o NumStr(k), IF k % 2 = 1 THEN sName ELSE <<>>, value)]

ScratchForms == { ListedFields(n, v) : n \in 0..MaxLines, v \in {Str(sOther), Str(<<>>), Bool(TRUE)} }

NoScratch == [pc |-> "idle", formData |-> <<>>, pdfDoc |-> TitledDocument, out |-> TitledDocument]

(***************************************************************************)
(* Documents, resolved fields and calls the PDFProcessor is driven with.   *)
(***************************************************************************)
NoDoc == [fields |-> <<>>, drawn |-> <<>>]

Slots == {"template", "docA", "docB"}

CallIds == {"A", "B"}

\* a clone that is the template object itself
CloneTargetShared(c) == "template"

\* a clone kept in one place that both calls use
CloneTargetOneSlot(c) == "docA"

\* PDFDocument.load(await this.templatePDF.save()): the new document object
CloneTarget(c) == IF c = "A" THEN "docA" ELSE "docB"

IdleCall ==
    [pc |-> "idle", formData |-> <<>>, doFlatten |-> FALSE, bytes |-> NoDoc,
     filledFields |-> <<>>, failedFields |-> <<>>, out |-> NoDoc]

\* the call record of fillForm(formData, {flatten}) at its first await
FillStarted(c, formData, doFlatten, bytes) ==
    [IdleCall EXCEPT !.pc = "saving", !.formData = formData,
                     !.doFlatten = doFlatten, !.bytes = bytes]

NoNames == [status |-> "idle", result |-> <<>>]

\* a getFormFieldNames that answers an empty list when no template is loaded
getFormFieldNamesEmpty(template, documents) ==
    IF template = "none" THEN [status |-> "returned", result |-> <<>>]
    ELSE [status |-> "returned", result |-> FieldNames(documents[template])]

\* PDFProcessor.getFormFieldNames
getFormFieldNames(template, documents) ==
    IF template = "none" THEN [status |-> "thrown", result |-> <<>>]
    ELSE [status |-> "returned", result |-> FieldNames(documents[template])]

IdleBoth == [pc |-> "idle", formData |-> <<>>, editable |-> NoDoc, flattened |-> NoDoc]

nFamilyName == <<"f","a","m","i","l","y","_","n","a","m","e">>

n1_b == <<"1","_","b">>

nReasonInitial == <<"r","e","a","s","o","n","_","i","n","i","t","i","a","l">>

nCountryList == <<"c","o","u","n","t","r","y","_","l","i","s","t">>

nPart2_1a == <<"P","a","r","t","2","_","1","a">>

nSecStatus == <<"s","e","c","_","s","t","a","t","u","s">>

nRenewalBox == <<"r","e","n","e","w","a","l","_","b","o","x">>

nSTATUS == <<"S","T","A","T","U","S">>

nGivenName == <<"g","i","v","e","n","_","n","a","m","e">>

nSecstatus == <<"s","e","c","s","t","a","t","u","s">>

\* the declared PDF field name "1.b."
n1b == <<"1",".","b",".">>

Templates ==
    { [fields |-> << Field(nFamilyName, "text"), Field(n1_b, "checkbox"),
                     Field(nReasonInitial, "checkbox"), Field(nStatus, "text"),
                     Field(nCountryList, "dropdown") >>,
       drawn |-> <<>>],
      [fields |-> << Field(nPart2_1a, "text"), Field(nSecStatus, "text"),
                     Field(nRenewalBox, "checkbox"), Field(nSTATUS, "checkbox") >>,
       drawn |-> <<>>],
      [fields |-> << Field(nGivenName, "checkbox"), Field(n1b, "text"),
                     Field(nSecstatus, "checkbox"), Field(nSecStatus, "text") >>,
       drawn |-> <<>>] }

\* declared PDF field names: "sec.status", "zzz", "country"
nSecDotStatus == <<"s","e","c",".","s","t","a","t","u","s">>

nZzz == <<"z","z","z">>

nCountry == <<"c","o","u","n","t","r","y">>

\* a resolved field as fillForm reads it
Entry(fieldId, pdfFieldName, value) ==
    [fieldId |-> fieldId, pdfFieldName |-> pdfFieldName, value |-> value]

FillValues ==
    { Bool(TRUE), Str(sMark), Str(sCheckedWord), Str(sYesWord), Str(sInitial),
      Str(sReplacement), Str(sRenewal), Str(<<>>), Str(sOther), Bool(FALSE) }

FormDatas ==
    { << Entry(f1, n, v), Entry(f2, nStatus, Str(sOther)) >> :
          n \in {n1b, sInitial, sRenewal}, v \in FillValues }
    \cup
    { << Entry(f1, nZzz, Str(sMark)), Entry(f2, n1a, Str(sOther)) >>,
      << Entry(f1, n1b, Str(sOther)), Entry(f2, nSecDotStatus, Str(sYesWord)) >>,
      << Entry(f1, n1a, Str(sOther)), Entry(f2, nZzz, Str(sMark)) >>,
      << Entry(f1, <<>>, Str(sMark)), Entry(f2, nSecDotStatus, Str(sYesWord)) >>,
      << Entry(f1, nCountry, Str(sMark)), Entry(f2, nZzz, Str(sMark)) >>,
      << Entry(f1, nZzz, Str(sMark)) >>,
      <<>> }


(***************************************************************************)
(* Properties of PDFProcessor.fillForm.                                    *)
(***************************************************************************)
Returned(c) == calls[c].pc = "returned"

\* the declared name has no alias-table entry, and no field of the document
\* is one of its variants or a fuzzy candidate for it
C8_NoCandidate(doc, name) ==
    /\ name \notin DOMAIN buildFieldNameMapping(doc)
    /\ \A i \in 1..Len(doc.fields) :
          /\ doc.fields[i].name \notin
                {name, dotsToUnderscores(name), dotsRemoved(name),
                 toLowerCase(name), toUpperCase(name)}
          /\ ~IsSimilar(doc.fields[i].name, name)

C8_Without(formData, i) == SubSeq(formData, 1, i - 1) \o SubSeq(formData, i + 1, Len(formData))

C8_Processed(c, entry) ==
    \/ \E k \in DOMAIN calls[c].filledFields : calls[c].filledFields[k].fieldId = entry.fieldId
    \/ \E k \in DOMAIN calls[c].failedFields : calls[c].failedFields[k].fieldId = entry.fieldId

\* C8: a resolved field whose declared PDF name has no alias-table entry, no
\* name variant and no fuzzy candidate in the document is in the failed-fields
\* list of the call, is not in its filled list, leaves the output what it
\* would be without the field, and every other resolved field with a PDF name
\* is still processed by the call, which returns.
C8_UnmatchedFieldRecorded ==
    \A c \in CallIds :
        Returned(c) =>
            \A i \in 1..Len(calls[c].formData) :
                LET entry == calls[c].formData[i]
                IN  (entry.pdfFieldName # <<>> /\ C8_NoCandidate(loadedTemplate, entry.pdfFieldName))
                    => /\ \E k \in DOMAIN calls[c].failedFields :
                              calls[c].failedFields[k] = entry
                       /\ \A k \in DOMAIN calls[c].filledFields :
                              calls[c].filledFields[k].fieldId # entry.fieldId
                       /\ calls[c].out =
                              fillDocument(loadedTemplate, C8_Without(calls[c].formData, i),
                                           calls[c].doFlatten).doc
                       /\ \A j \in 1..Len(calls[c].formData) :
                              (j # i /\ calls[c].formData[j].pdfFieldName # <<>>)
                              => C8_Processed(c, calls[c].formData[j])

\* a returned call whose first field matched nothing and whose second field
\* was written
C8_UnmatchedThenFilled ==
    /\ Returned("A")
    /\ Len(calls["A"].formData) = 2
    /\ C8_NoCandidate(loadedTemplate, calls["A"].formData[1].pdfFieldName)
    /\ Len(calls["A"].failedFields) = 1
    /\ Len(calls["A"].filledFields) = 1
    /\ calls["A"].filledFields[1].fieldId = calls["A"].formData[2].fieldId

C9_CheckTokens ==
    { Bool(TRUE), Str(sMark), Str(sCheckedWord), Str(sYesWord), Str(sInitial),
      Str(sReplacement), Str(sRenewal) }

\* the fields of a document, interactive or flattened
C9_Content(doc) == doc.fields \o doc.drawn

\* C9: every checkbox a returned call wrote, by variant match or by fuzzy
\* match, is checked in the output exactly when the value written to it is
\* one of true, X, checked, Yes, initial, replacement, renewal.
C9_CheckboxTokens ==
    \A c \in CallIds :
        Returned(c) =>
            \A k \in DOMAIN calls[c].filledFields :
                LET w == calls[c].filledFields[k]
                IN  (/\ w.type = "checkbox"
                     /\ \A l \in DOMAIN calls[c].filledFields :
                           l > k => calls[c].filledFields[l].pdfFieldName # w.pdfFieldName)
                    => \A i \in DOMAIN C9_Content(calls[c].out) :
                          C9_Content(calls[c].out)[i].name = w.pdfFieldName
                          => (C9_Content(calls[c].out)[i].checked <=> w.value \in C9_CheckTokens)

\* C9 on the variant path only
C9_VariantCheckboxTokens ==
    \A c \in CallIds :
        Returned(c) =>
            \A k \in DOMAIN calls[c].filledFields :
                LET w == calls[c].filledFields[k]
                IN  (/\ w.type = "checkbox"
                     /\ ~w.matched
                     /\ \A l \in DOMAIN calls[c].filledFields :
                           l > k => calls[c].filledFields[l].pdfFieldName # w.pdfFieldName)
                    => \A i \in DOMAIN C9_Content(calls[c].out) :
                          C9_Content(calls[c].out)[i].name = w.pdfFieldName
                          => (C9_Content(calls[c].out)[i].checked <=> w.value \in C9_CheckTokens)

\* a fuzzy-matched checkbox written with the value initial
C9_FuzzyInitialWritten ==
    /\ Returned("A")
    /\ \E k \in DOMAIN calls["A"].filledFields :
          /\ calls["A"].filledFields[k].type = "checkbox"
          /\ calls["A"].filledFields[k].matched
          /\ calls["A"].filledFields[k].value = Str(sInitial)

\* C10: the cached template is what loadTemplate left, whatever fills have
\* run, and every returned call's output is the output of filling the
\* template as loaded with the call's resolved fields and flatten option.
C10_TemplateNeverMutated ==
    /\ templatePDF # "none" => docs[templatePDF] = loadedTemplate
    /\ \A c \in CallIds :
          Returned(c) =>
              calls[c].out =
                  fillDocument(loadedTemplate, calls[c].formData, calls[c].doFlatten).doc

\* a second fill has returned, flattened and with a field written, and the
\* template still has its fields
C10_SecondFillReturned ==
    /\ Returned("A")
    /\ nFills >= 2
    /\ calls["A"].doFlatten
    /\ calls["A"].filledFields # <<>>
    /\ calls["A"].out # loadedTemplate
    /\ docs["template"] = loadedTemplate
    /\ loadedTemplate.fields # <<>>

(***************************************************************************)
(* The stage order of PDFProcessor.fillForm.                               *)
(***************************************************************************)
\* the names of the stages before the fuzzy one, in the order claimed;
\* aliases is the alias table of the document
C19_Stages(aliases, name) ==
    << IF name \in DOMAIN aliases THEN aliases[name] ELSE name,
       name, dotsToUnderscores(name), dotsRemoved(name),
       toLowerCase(name), toUpperCase(name) >>

C19_Kinds(doc, name) == { doc.fields[i].kind : i \in { j \in DOMAIN doc.fields : doc.fields[j].name = name } }

C19_Writable(doc, name) == C19_Kinds(doc, name) \cap {"text", "checkbox"} # {}

\* the stages that name a text field or a checkbox of the document
C19_Hits(doc, stages) == { k \in DOMAIN stages : C19_Writable(doc, stages[k]) }

\* the fields of the document, by position, that the fuzzy test accepts
C19_Similar(doc, name) ==
    LET lower == toLowerCase(name)
    IN  { i \in DOMAIN doc.fields :
            LET field == toLowerCase(doc.fields[i].name)
            IN  \/ includes(field, lower)
                \/ includes(lower, field)
                \/ stripPunctuation(field) = stripPunctuation(lower) }

\* the writes of the call that belong to the resolved field
C19_Writes(c, entry) ==
    { k \in DOMAIN calls[c].filledFields : calls[c].filledFields[k].fieldId = entry.fieldId }

\* what C19 says of one resolved field of a returned call, but for when the
\* fuzzy stage writes
C19_Ordered(c, entry, hits, stages, similar) ==
    LET doc == loadedTemplate
        writes == C19_Writes(c, entry)
    IN  /\ Cardinality(writes) <= 1
        /\ hits # {} =>
              \E k \in writes :
                  LET w == calls[c].filledFields[k]
                  IN  /\ ~w.matched
                      /\ w.pdfFieldName = stages[Min(hits)]
                      /\ w.type = IF "text" \in C19_Kinds(doc, w.pdfFieldName)
                                  THEN "text" ELSE "checkbox"
        /\ hits = {} =>
              \A k \in writes :
                  LET w == calls[c].filledFields[k]
                  IN  /\ w.matched
                      /\ similar # {}
                      /\ w.pdfFieldName = doc.fields[Min(similar)].name
                      /\ w.type = IF "text" \in C19_Kinds(doc, w.pdfFieldName)
                                  THEN "text" ELSE "checkbox"

\* the returned document differs from the template only in the fields the
\* call's writes name
C19_OnlyWrittenFieldsChange(c) ==
    \A i \in DOMAIN C9_Content(calls[c].out) :
        C9_Content(calls[c].out)[i] # loadedTemplate.fields[i]
        => \E k \in DOMAIN calls[c].filledFields :
               calls[c].filledFields[k].pdfFieldName = loadedTemplate.fields[i].name

\* C19 as stated: each resolved field is written to at most one document
\* field; the stages are the alias-table hit, the declared name, dots to
\* underscores, dots removed, lower case, upper case, each as a text field and
\* then as a checkbox; the fuzzy stage runs only when all of those failed, and
\* it writes to the first field in document order whose name contains, is
\* contained in, or equals after stripping punctuation the declared name.
C19_StageOrder ==
    \A c \in CallIds :
        Returned(c) =>
            LET aliases == buildFieldNameMapping(loadedTemplate)
            IN  /\ C19_OnlyWrittenFieldsChange(c)
                /\ \A i \in DOMAIN calls[c].formData :
                      LET entry == calls[c].formData[i]
                          stages == C19_Stages(aliases, entry.pdfFieldName)
                          hits == C19_Hits(loadedTemplate, stages)
                          similar == C19_Similar(loadedTemplate, entry.pdfFieldName)
                      IN  entry.pdfFieldName # <<>> =>
                            /\ C19_Ordered(c, entry, hits, stages, similar)
                            /\ (hits = {} /\ similar # {}) => C19_Writes(c, entry) # {}

\* C19, the fuzzy stage writing only when its first candidate is a text field
\* or a checkbox: otherwise the resolved field is recorded as failed and no
\* later candidate is tried.
C19_StageOrderWritable ==
    \A c \in CallIds :
        Returned(c) =>
            LET aliases == buildFieldNameMapping(loadedTemplate)
                doc == loadedTemplate
            IN  /\ C19_OnlyWrittenFieldsChange(c)
                /\ \A i \in DOMAIN calls[c].formData :
                      LET entry == calls[c].formData[i]
                          stages == C19_Stages(aliases, entry.pdfFieldName)
                          hits == C19_Hits(doc, stages)
                          similar == C19_Similar(doc, entry.pdfFieldName)
                      IN  (entry.pdfFieldName # <<>>) =>
                            /\ C19_Ordered(c, entry, hits, stages, similar)
                            /\ hits = {} =>
                                  IF similar # {} /\ C19_Writable(doc, doc.fields[Min(similar)].name)
                                  THEN C19_Writes(c, entry) # {}
                                  ELSE /\ C19_Writes(c, entry) = {}
                                       /\ \E k \in DOMAIN calls[c].failedFields :
                                              calls[c].failedFields[k] = entry

\* a returned call that wrote through the alias-table hit although a text
\* field carries the declared name, and through a variant that is not the
\* first field in document order
C19_AliasBeforeDeclared ==
    /\ Returned("A")
    /\ Len(calls["A"].filledFields) = 2
    /\ calls["A"].formData[1].pdfFieldName = n1b
    /\ "text" \in C19_Kinds(loadedTemplate, n1b)
    /\ calls["A"].filledFields[1].pdfFieldName = nGivenName
    /\ calls["A"].filledFields[2].pdfFieldName = nSecStatus
    /\ C19_Writable(loadedTemplate, nSecstatus)

(***************************************************************************)
(* Properties of PDFProcessor.generateBothVersions.                        *)
(***************************************************************************)
\* C11: generateBothVersions returns an editable output with as many form
\* fields as the template has and a flattened output with no interactive
\* field; the flattened output carries, as page content, the fields of the
\* editable one with their values, and the two outputs differ.
C11_BothVersions ==
    (both.pc = "returned") =>
        /\ Len(both.editable.fields) = Len(loadedTemplate.fields)
        /\ both.editable.drawn = <<>>
        /\ both.flattened.fields = <<>>
        /\ both.flattened.drawn = both.editable.fields
        /\ both.editable # both.flattened

\* both versions returned, with a text written and a checkbox checked
C11_BothReturnedFilled ==
    /\ both.pc = "returned"
    /\ \E i \in DOMAIN both.editable.fields : both.editable.fields[i].text # <<>>
    /\ \E i \in DOMAIN both.editable.fields : both.editable.fields[i].checked
    /\ \E i \in DOMAIN both.flattened.drawn : both.flattened.drawn[i].checked

(***************************************************************************)
(* Properties of the PDFProcessor without a template.                      *)
(***************************************************************************)
C12_ProcessorUnchanged == UNCHANGED <<templatePDF, docs, loadedTemplate>>

C12_Step ==
    /\ (templatePDF = "none" /\ calls' # calls)
           => (calls'["A"].pc = "thrown" /\ C12_ProcessorUnchanged)
    /\ (templatePDF = "none" /\ fieldNames' # fieldNames)
           => (fieldNames'.status = "thrown" /\ C12_ProcessorUnchanged)
    /\ (templatePDF # "none" /\ calls' # calls) => calls'["A"].pc # "thrown"
    /\ (templatePDF # "none" /\ fieldNames' # fieldNames)
           => /\ fieldNames'.status = "returned"
              /\ fieldNames'.result = FieldNames(loadedTemplate)

\* C12: without a template every fillForm and every getFormFieldNames call
\* throws and leaves the processor's template and documents as they were;
\* with a template loaded neither call throws, and getFormFieldNames returns
\* the template's field names.
C12_MissingTemplate == [][C12_Step]_vars

\* both operations failed without a template and succeeded after loadTemplate
C12_FailedThenSucceeded ==
    /\ rejected = {"fillForm", "getFormFieldNames"}
    /\ templatePDF # "none"
    /\ calls["A"].pc = "returned"
    /\ calls["A"].filledFields # <<>>
    /\ fieldNames.status = "returned"
    /\ fieldNames.result # <<>>

(***************************************************************************)
(* Properties of FieldMapper.loadConfig.                                   *)
(***************************************************************************)
C13_Failures == {"rejected", "notOk", "unparseable"}

\* no candidate has yielded a schema so far
C13_NoSchemaYet ==
    /\ loader.log # <<>>
    /\ \A j \in 1..Len(loader.log) : loader.log[j].outcome \in C13_Failures \cup {"pending"}

\* C13: built without a config, when every candidate fails (fetch rejects,
\* response not ok, or JSON unparseable) loadConfig ends without raising and
\* with config = {parts: []}; and a mapProfileToForm made while no candidate
\* has yielded a schema, before, during or after the load, returns an empty
\* result and does not raise.
C13_LoadFailureGivesEmptySchema ==
    /\ loader.pc # "raised"
    /\ (/\ loader.pc \in {"done", "raised"}
        /\ Len(loader.log) = Len(paths)
        /\ \A j \in 1..Len(loader.log) : loader.log[j].outcome \in C13_Failures)
           => (loader.pc = "done" /\ config = EmptyConfig)
    /\ (mapOp.kind = "toForm" /\ C13_NoSchemaYet) => (mappedForm = <<>> /\ ~mapOp.threw)

\* the three candidates failed in the three ways, and the profile was mapped
\* after the load
C13_AllFailedThenMapped ==
    /\ loader.pc = "done"
    /\ { loader.log[j].outcome : j \in 1..Len(loader.log) } = C13_Failures
    /\ config = EmptyConfig
    /\ mapOp.kind = "toForm"
    /\ applicantProfile # EmptyObj

\* the candidates are fetched in their listed order, and each only after
\* every earlier one failed
C20_OrderedShortCircuit ==
    /\ Len(loader.log) <= Len(paths)
    /\ \A j \in 1..Len(loader.log) :
          /\ loader.log[j].path = paths[j]
          /\ j < Len(loader.log) => loader.log[j].outcome \in C13_Failures

\* C20: the candidates are fetched strictly in their listed order, each only
\* after every earlier one failed, none after the first success, and
\* loadConfig ends with a non-null config under every outcome of the fetches.
C20_FallbackChain ==
    /\ C20_OrderedShortCircuit
    /\ loader.pc = "done" => config # NoConfig

(***************************************************************************)
(* Properties of PDFProcessor.createPDFFromScratch.                        *)
(***************************************************************************)
\* C14: createPDFFromScratch draws one line per resolved field; a line drawn
\* after a page was added is on the page added last, never on an earlier
\* page, and no two lines share a page and a vertical position.
C14_Paginates ==
    (scratch.pc = "returned") =>
        /\ Len(scratch.out.lines) = Len(scratch.formData)
        /\ \A k \in DOMAIN scratch.out.lines :
              scratch.out.lines[k].page = scratch.out.lines[k].pages
        /\ \A k, l \in DOMAIN scratch.out.lines :
              (k # l /\ scratch.out.lines[k].page = scratch.out.lines[l].page)
              => scratch.out.lines[k].y # scratch.out.lines[l].y

\* one line per resolved field, each at or above the bottom margin
C14_OneLinePerField ==
    (scratch.pc = "returned") =>
        /\ Len(scratch.out.lines) = Len(scratch.formData)
        /\ \A k \in DOMAIN scratch.out.lines :
              /\ scratch.out.lines[k].text = LineText(scratch.formData[k])
              /\ scratch.out.lines[k].y >= BottomMargin

(***************************************************************************)
(* Properties of the schema at runtime.                                    *)
(***************************************************************************)
\* C15: whatever mapProfileToForm, mapFormToProfile and validateSection
\* calls have run, every field descriptor of the schema, its validation
\* object and its value_mapping included, is what was loaded.
C15_SchemaReadOnly == config = loadedSchema

\* the mapper alone leaves the schema as loaded: a change of the schema
\* comes with a validateSection call
C15_OnlyValidationWrites == (config # loadedSchema) => validated # NoValidation

\* a validateSection call has written required, max_length and type into
\* the validation object of the first descriptor
C15_RulesWrittenIntoSchema ==
    /\ validated.part = 1
    /\ Truthy(loadedSchema.parts[1].fields[1].validation)
    /\ GetProp(loadedSchema.parts[1].fields[1].validation, kRequired) = Undefined
    /\ GetProp(config.parts[1].fields[1].validation, kRequired) = Bool(TRUE)
    /\ GetProp(config.parts[1].fields[1].validation, kMaxLength) = Num(5)
    /\ GetProp(config.parts[1].fields[1].validation, kType) = Str(<<"T", "e", "x", "t", " ", "I", "n", "p", "u", "t">>)

(***************************************************************************)
(* Properties of the ApplicantProfile.                                     *)
(***************************************************************************)
\* C16: after q.fromJSON(p.toJSON()) on a freshly constructed q, the six
\* sections other than metadata are equal in q and in p, and metadata is
\* equal key by key except for updatedAt.
C16_ExportImportRoundTrip ==
    (roundTrip # NoRoundTrip) =>
        /\ \A i \in 1..Len(SectionKeys) :
              SectionKeys[i] # kMetadata =>
                  GetProp(roundTrip.q, SectionKeys[i]) = GetProp(roundTrip.p, SectionKeys[i])
        /\ LET mp == GetProp(roundTrip.p, kMetadata)
               mq == GetProp(roundTrip.q, kMetadata)
           IN  /\ DOMAIN mp.m = DOMAIN mq.m
               /\ \A k \in DOMAIN mp.m : k # kUpdatedAt => mq.m[k] = mp.m[k]

\* a profile with a name set, a note added and an earlier update time has
\* been exported and imported
C16_EditedProfileRoundTripped ==
    /\ roundTrip # NoRoundTrip
    /\ getNestedValue(roundTrip.p, <<"p", "e", "r", "s", "o", "n", "a", "l", "I", "n", "f", "o", ".", "l", "a", "s", "t", "N", "a", "m", "e">>) = Str(<<"W", "u">>)
    /\ getNestedValue(roundTrip.p, <<"m", "e", "t", "a", "d", "a", "t", "a", ".", "n", "o", "t", "e", "s">>) # EmptyArr
    /\ getNestedValue(roundTrip.q, <<"m", "e", "t", "a", "d", "a", "t", "a", ".", "u", "p", "d", "a", "t", "e", "d", "A", "t">>)
           # getNestedValue(roundTrip.p, <<"m", "e", "t", "a", "d", "a", "t", "a", ".", "u", "p", "d", "a", "t", "e", "d", "A", "t">>)

\* C17: calculateCompletionPercentage returns a number from 0 to 100 and
\* stores that number in metadata.completionPercentage.
C17_PercentageInRange ==
    (completion # NoCompletion) =>
        /\ completion.returned \in 0..100
        /\ completion.stored = Num(completion.returned)

\* what holds instead: the number is a hundred times a percentage
C17_HundredfoldPercentage ==
    (completion # NoCompletion) =>
        /\ completion.returned \in 0..10000
        /\ completion.stored = Num(completion.returned)

\* a newly constructed profile has been given a completion of 1391
C17_NewProfileAbove100 ==
    /\ nEdits = 0
    /\ completion.returned = 1391

(***************************************************************************)
(* Properties of LocalizationManager.t.                                    *)
(***************************************************************************)
\* the entry table of a language: the keys TRANSLATIONS lists for it
C18_Table(language) == GetProp(TRANSLATIONS, language).m

\* C18: t(key) returns the entry of the current language for every key the
\* entry table of that language holds; a key absent there gets the entry of
\* the default language, then the English one; a key absent from all of
\* them is returned itself and is in missingTranslations after the call.
C18_TranslationLookup ==
    (translated # NoTranslation) =>
        LET key == translated.key
            current == C18_Table(translated.language)
            default == C18_Table(localization.defaultLanguage)
            fallback == C18_Table(localization.fallbackLanguage)
        IN  IF key \in DOMAIN current THEN translated.res = current[key].s
            ELSE IF key \in DOMAIN default THEN translated.res = default[key].s
            ELSE IF key \in DOMAIN fallback THEN translated.res = fallback[key].s
            ELSE /\ translated.res = key
                 /\ key \in localization.missingTranslations

\* what t does: every key of the model comes back as it went in
C18_KeyComesBack == (translated # NoTranslation) => translated.res = translated.key

\* t('app.title') under zh has returned the key and recorded it as missing
C18_ListedKeyMissing ==
    /\ translated.key = kAppTitle
    /\ translated.language = codeZh
    /\ translated.res = kAppTitle
    /\ kAppTitle \in localization.missingTranslations

(***************************************************************************)
(* Overlapping fillForm calls.                                             *)
(***************************************************************************)
\* the forms the two overlapping calls are given
OverlapForms ==
    { << Entry(f1, n1b, Str(sOther)), Entry(f2, nStatus, Str(sOther)) >>,
      << Entry(f1, sInitial, Bool(TRUE)), Entry(f2, nSecDotStatus, Str(sYesWord)) >>,
      << Entry(f1, nCountry, Str(sMark)), Entry(f2, nZzz, Str(sMark)) >> }

\* what the call returns when it is the only one running
C21_Alone(c) == fillDocument(loadedTemplate, calls[c].formData, calls[c].doFlatten)

\* C21: whatever the interleaving of two fillForm calls, the document a call
\* saves and returns, and its filled and failed lists, are those of the same
\* call run alone on the template: its own values and its own flatten setting.
C21_OverlappingCallsIndependent ==
    \A c \in CallIds :
        calls[c].pc \in {"savingResult", "returned"} =>
            LET alone == C21_Alone(c)
            IN  /\ calls[c].filledFields = alone.filledFields
                /\ calls[c].failedFields = alone.failedFields
                /\ calls[c].pc = "savingResult" => docs[CloneTarget(c)] = alone.doc
                /\ calls[c].pc = "returned" => calls[c].out = alone.doc

\* both calls are at pdfDoc.save() at once, with different forms, different
\* flatten settings and different documents
C21_BothSavingDifferentDocuments ==
    /\ calls["A"].pc = "savingResult"
    /\ calls["B"].pc = "savingResult"
    /\ calls["A"].formData # calls["B"].formData
    /\ calls["A"].doFlatten # calls["B"].doFlatten
    /\ docs["docA"] # docs["docB"]
    /\ Len(calls["A"].filledFields) > 0
    /\ Len(calls["B"].filledFields) > 0

(***************************************************************************)
(* The two lists of PDFProcessor.fillForm.                                 *)
(***************************************************************************)
\* the positions of list whose fieldId is fieldId
C23_Positions(list, fieldId) == {k \in DOMAIN list : list[k].fieldId = fieldId}

\* C23: when fillForm has reached pdfDoc.save(), each resolved field of its
\* input that has a pdfFieldName is exactly once in filledFields or exactly
\* once in failedFields and not in both, and a resolved field without a
\* pdfFieldName is in neither list.
C23_FilledFailedPartition ==
    \A c \in CallIds :
        calls[c].pc \in {"savingResult", "returned"} =>
            \A i \in DOMAIN calls[c].formData :
                LET entry == calls[c].formData[i]
                    nFilled == Cardinality(C23_Positions(calls[c].filledFields, entry.fieldId))
                    nFailed == Cardinality(C23_Positions(calls[c].failedFields, entry.fieldId))
                IN  IF entry.pdfFieldName = <<>>
                    THEN nFilled = 0 /\ nFailed = 0
                    ELSE nFilled + nFailed = 1

\* a run at its save step with one field filled by the fuzzy stage, whose
\* other field is failed
C23_OneFilledOneFailed ==
    /\ calls["A"].pc = "savingResult"
    /\ Len(calls["A"].formData) = 2
    /\ \E k \in DOMAIN calls["A"].filledFields : calls["A"].filledFields[k].matched
    /\ Len(calls["A"].failedFields) = 1

(***************************************************************************)
(* Properties of FormValidator.validateField.                              *)
(***************************************************************************)
NoFieldCheck ==
    [done |-> FALSE, fieldId |-> <<>>, value |-> Undefined, rules |-> EmptyObj,
     isZh |-> FALSE, res |-> [isValid |-> TRUE, errors |-> <<>>, raised |-> FALSE]]

\* field ids: "email", "day_phone", "alien_number", "f1", and none
CheckedFieldIds ==
    {fEmail, fPhone, <<"a", "l", "i", "e", "n", "_", "n", "u", "m", "b", "e", "r">>, f1, <<>>}

CheckedValues ==
    { Undefined, Null, Str(<<>>), Str(sMail), Str(sOther), Bool(FALSE), Bool(TRUE), Num(0) }

\* {}, {required: true}, {required: true, min_length: 2, type: 'email'},
\* {required: false, pattern: '^[A-Za-z]+$', max_length: 3}, {type: 'phone'},
\* {required: true, type: 'date', pattern: '^[A-Za-z]+$'}
CheckedRules ==
    { EmptyObj,
      Obj(<< <<kRequired, Bool(TRUE)>> >>),
      Obj(<< <<kRequired, Bool(TRUE)>>, <<kMinLength, Num(2)>>,
             <<kType, Str(<<"e", "m", "a", "i", "l">>)>> >>),
      Obj(<< <<kRequired, Bool(FALSE)>>, <<kPattern, Str(sLettersOnly)>>,
             <<kMaxLength, Num(3)>> >>),
      Obj(<< <<kType, Str(<<"p", "h", "o", "n", "e">>)>> >>),
      Obj(<< <<kRequired, Bool(TRUE)>>, <<kType, Str(<<"d", "a", "t", "e">>)>>,
             <<kPattern, Str(sLettersOnly)>> >>) }

\* value === null || value === undefined || value === ''
C28_Empty(value) == IsNullish(value) \/ StrictEq(value, Str(<<>>))

\* the required message in the language of the call
C28_RequiredMessage(isZh) ==
    Message(isZh, <<"u6B64", "u5B57", "u6BB5", "u4E3A", "u5FC5", "u586B", "u9879">>,
            <<"T", "h", "i", "s", " ", "f", "i", "e", "l", "d", " ", "i", "s", " ",
              "r", "e", "q", "u", "i", "r", "e", "d">>)

\* C28: a result of validateField has isValid true exactly when errors is
\* empty; a required field with a null, undefined or empty-string value gives
\* isValid false and the required message as the only error, whatever the
\* other rules and the field id are; a field that is not required and has
\* such a value gives isValid true and no errors.
C28_RequiredAndEmptyRules ==
    fieldCheck.done =>
        LET res == fieldCheck.res
            required == Truthy(GetProp(fieldCheck.rules, kRequired))
        IN  /\ ~res.raised => (res.isValid <=> res.errors = <<>>)
            /\ (required /\ C28_Empty(fieldCheck.value)) =>
                  /\ ~res.raised
                  /\ ~res.isValid
                  /\ res.errors = <<C28_RequiredMessage(fieldCheck.isZh)>>
            /\ (~required /\ C28_Empty(fieldCheck.value)) =>
                  /\ ~res.raised
                  /\ res.isValid
                  /\ res.errors = <<>>

\* a required field without a value was validated under rules that would
\* each have failed (or raised) on it, in Chinese
C28_RequiredMissingOtherRulesSkipped ==
    /\ fieldCheck.done
    /\ fieldCheck.isZh
    /\ fieldCheck.value = Str(<<>>)
    /\ fieldCheck.fieldId = fEmail
    /\ StrictEq(GetProp(fieldCheck.rules, kMinLength), Num(2))
    /\ Len(fieldCheck.res.errors) = 1

\* a field that is not required and has no value passed under a pattern
C28_OptionalEmptyPassed ==
    /\ fieldCheck.done
    /\ fieldCheck.value = Null
    /\ Truthy(GetProp(fieldCheck.rules, kPattern))
    /\ ~Truthy(GetProp(fieldCheck.rules, kRequired))
    /\ fieldCheck.res.isValid

(***************************************************************************)
(* Properties of the ApplicantProfile's validate methods.                  *)
(***************************************************************************)
\* a profile as the constructor builds it
C26_Constructed == NewProfile(0, CHOOSE random \in Randoms : TRUE)

\* actual has every key of expected, at every depth
RECURSIVE C26_KeepsShape(_, _)
C26_KeepsShape(expected, actual) ==
    expected.t = "object" =>
        /\ actual.t = "object"
        /\ \A k \in DOMAIN expected.m :
              /\ k \in DOMAIN actual.m
              /\ C26_KeepsShape(expected.m[k], actual.m[k])

\* C26: after any sequence of fromJSON and reset calls the profile has every
\* nested field of the structure the constructor builds, and every validate
\* method that was called on it returned a result.
C26_ValidatorsAlwaysReturn ==
    /\ C26_KeepsShape(C26_Constructed, theProfile)
    /\ ~validity.res.raised

\* personalInfo.contact has lost its address
C26_AddressGone ==
    IsNullish(GetProp(GetProp(GetProp(theProfile, kPersonalInfo), kContact), kAddress))

\* the validate methods return on every profile that has kept the shape of
\* the constructor's
C26_ShapedProfilesValidate ==
    (validity.method # "none" /\ C26_KeepsShape(C26_Constructed, validity.of))
        => ~validity.res.raised

\* eligibilityInfo.workAuthorization.previouslyDeniedEAD or previouslyRevokedEAD
C29_PriorDenialOrRevocation(p) ==
    LET work == GetProp(GetProp(p, kEligibilityInfo), kWorkAuthorization)
    IN  \/ StrictEq(GetProp(work, kPreviouslyDeniedEAD), Bool(TRUE))
        \/ StrictEq(GetProp(work, kPreviouslyRevokedEAD), Bool(TRUE))

\* C29: validateEligibility on a profile whose prior-denial or
\* prior-revocation flag is true returns isValid false, and the
\* denial/revocation message is among its errors.
C29_PriorDenialReported ==
    (validity.method = "validateEligibility" /\ C29_PriorDenialOrRevocation(validity.of))
        => /\ ~validity.res.raised
           /\ ~validity.res.isValid
           /\ \E i \in DOMAIN validity.res.errors : validity.res.errors[i] = sDenialMessage

\* a profile with a category, a purpose and a prior denial was found valid
C29_DeniedApplicantValid ==
    /\ validity.method = "validateEligibility"
    /\ C29_PriorDenialOrRevocation(validity.of)
    /\ validity.res.isValid

(***************************************************************************)
(* Properties of LocalizationManager.setLanguage.                          *)
(***************************************************************************)
\* C27: setLanguage with an unsupported code returns false, changes nothing
\* of the manager, calls no listener and saves no preference; with a
\* supported code that is not the current one it sets the language, saves the
\* preference and calls the registered listeners once each, in registration
\* order, with the new code, the throwing ones included and not ending the
\* round; with the current code it returns true and calls no listener.
C27_SetLanguageOutcome ==
    langCall.done =>
        IF langCall.language \notin SUPPORTED_LANGUAGES
        THEN /\ ~langCall.returned
             /\ ~langCall.changed
             /\ langCall.calls = <<>>
             /\ ~langCall.saved
             /\ localization.currentLanguage = langCall.before
        ELSE IF langCall.language # langCall.before
        THEN /\ langCall.returned
             /\ localization.currentLanguage = langCall.language
             /\ langCall.saved
             /\ Len(langCall.calls) = Len(langCall.listeners)
             /\ \A i \in DOMAIN langCall.calls :
                   langCall.calls[i] = [listener |-> langCall.listeners[i],
                                        language |-> langCall.language]
        ELSE /\ langCall.returned
             /\ ~langCall.changed
             /\ langCall.calls = <<>>

\* the language was changed with three listeners registered, the second of
\* which throws
C27_ThrowingListenerInTheMiddle ==
    /\ langCall.done
    /\ langCall.language = codeZh
    /\ langCall.before = codeEn
    /\ langCall.listeners = <<"returns", "throws", "returnsToo">>
    /\ Len(langCall.calls) = 3

\* an unsupported code was given while listeners were registered
C27_UnsupportedWithListeners ==
    /\ langCall.done
    /\ langCall.language = codeFr
    /\ Len(langCall.listeners) = 2
    /\ ~langCall.returned

(***************************************************************************)
(* Properties of the service worker.                                       *)
(***************************************************************************)
\* the path ends in one of the static extensions
C24_StaticPath(path) ==
    \E ext \in {<<".", "j", "s">>, <<".", "c", "s", "s">>, <<".", "p", "n", "g">>, <<".", "j", "p", "g">>, <<".", "j", "p", "e", "g">>, <<".", "g", "i", "f">>, <<".", "s", "v", "g">>,
                <<".", "w", "o", "f", "f">>, <<".", "w", "o", "f", "f", "2">>, <<".", "t", "t", "f">>} :
        /\ Len(path) >= Len(ext)
        /\ \A i \in 1..Len(ext) : path[Len(path) - Len(ext) + i] = ext[i]

\* the path contains "/api/"
C24_ApiPath(path) ==
    \E i \in 1..(Len(path) - 4) : SubSeq(path, i, i + 4) = <<"/", "a", "p", "i", "/">>

\* C24: the fetch listener answers a same-origin GET of a static path with
\* cacheFirst, any other same-origin GET of a path containing /api/ with
\* networkFirst, every other same-origin GET with staleWhileRevalidate, a
\* same-origin POST with networkOnly, and does not answer a cross-origin
\* request or another method.
C24_OneStrategyPerRequest ==
    swEvent.pc # "idle" =>
        LET request == swEvent.request
        IN  IF request.origin # "same" \/ request.method \notin {"GET", "POST"}
            THEN swEvent.strategy = "none" /\ ~swEvent.answered /\ swEvent.pc = "done"
            ELSE IF request.method = "POST" THEN swEvent.strategy = "networkOnly"
            ELSE IF C24_StaticPath(request.path) THEN swEvent.strategy = "cacheFirst"
            ELSE IF C24_ApiPath(request.path) THEN swEvent.strategy = "networkFirst"
            ELSE swEvent.strategy = "staleWhileRevalidate"

\* an image under /api/ was answered as a static asset, from the network
C24_StaticUnderApi ==
    /\ swEvent.pc = "done"
    /\ swEvent.request.path = <<"/", "a", "p", "i", "/", "l", "o", "g", "o", ".", "p", "n", "g">>
    /\ swEvent.strategy = "cacheFirst"
    /\ swEvent.answered
    /\ swEvent.answer.body = nEvents

\* the writes made at fetch time are of GET requests and of responses with
\* status 200 and a type other than error, and a cache holds nothing but the
\* assets of the install step and those writes
C25_WritesAreSuccessfulGets ==
    /\ \A i \in DOMAIN swLog :
          /\ swLog[i].request.method = "GET"
          /\ swLog[i].response.status = 200
          /\ swLog[i].response.type # "error"
    /\ \A put \in swPuts :
          /\ put.request.method = "GET"
          /\ put.response.status = 200
          /\ put.response.type # "error"
    /\ \A name \in DOMAIN swCaches : \A path \in DOMAIN swCaches[name] :
          \/ path \in STATIC_ASSETS /\ swCaches[name][path] = InstalledCaches[STATIC_CACHE][path]
          \/ \E i \in DOMAIN swLog :
                /\ swLog[i].cache = name
                /\ swLog[i].request.path = path
                /\ swLog[i].response = swCaches[name][path]

\* the step in which fetch(request) rejects leaves the caches and the
\* pending writes as they are
C25_FailedFetchKeepsCaches ==
    (swEvent.pc = "fetching" /\ swEvent'.failed) =>
        (swCaches' = swCaches /\ swPuts' = swPuts /\ swLog' = swLog)

\* C25: every response written to a cache at fetch time came from a GET
\* request, had status 200 and a type other than error (so no unsuccessful
\* response and no POST response is cached), and a failed network fetch
\* neither overwrites nor removes a cache entry.
C25_OnlySuccessfulGetsCached ==
    []C25_WritesAreSuccessfulGets /\ [][C25_FailedFetchKeepsCaches]_vars

\* an API response was cached by one event, and a later event whose fetch
\* failed was answered with it
C25_FailedFetchServedFromCache ==
    /\ swEvent.pc = "done"
    /\ swEvent.failed
    /\ swEvent.strategy = "networkFirst"
    /\ Len(swLog) = 1
    /\ swEvent.answer = swLog[1].response
    /\ swCaches[RUNTIME_CACHE][swEvent.request.path] = swEvent.answer

(***************************************************************************)
(* Properties of the DeviceDetector's resize handling.                     *)
(***************************************************************************)
\* while the timer is pending nothing has been detected for the burst and
\* the timer is due 250 ms after the last event; once it has run, it has run
\* once, 250 ms after the last event, and has called each listener
\* subscribed then once, in order, with devicechange when the device type
\* changed and orientationchange otherwise
C30_OneDetectionPerBurst ==
    /\ resizeTimeout # NoTimer =>
          /\ burst.detections = 0
          /\ burst.events >= 1
          /\ resizeTimeout = burst.last + ResizeDelay
          /\ timeMs <= resizeTimeout
    /\ burst.detections <= 1
    /\ burst.detections = 1 =>
          /\ burst.firedAt = burst.last + ResizeDelay
          /\ Len(burst.calls) = Len(burst.listeners)
          /\ \A i \in DOMAIN burst.calls :
                /\ burst.calls[i].listener = burst.listeners[i]
                /\ burst.calls[i].type =
                      IF burst.calls[i].deviceType # burst.previousType
                      THEN "devicechange" ELSE "orientationchange"

\* C30: a burst of resize events, each less than 250 ms after the one
\* before, leads to one detection of device type and orientation, 250 ms
\* after its last event, and to one notification of each subscribed
\* listener (devicechange if the device type changed, orientationchange
\* otherwise); and the detection does come.
C30_ResizeDebounced ==
    /\ []C30_OneDetectionPerBurst
    /\ (resizeTimeout # NoTimer) ~> (resizeTimeout = NoTimer /\ burst.detections = 1)

\* a burst of two events 125 ms apart was answered by one detection that
\* changed the device type and called two listeners, the first of which throws
C30_BurstOfTwoDetectedOnce ==
    /\ burst.events = 2
    /\ burst.last = TickMs
    /\ burst.detections = 1
    /\ burst.listeners = <<"throws", "returns">>
    /\ Len(burst.calls) = 2
    /\ burst.calls[2].type = "devicechange"

(***************************************************************************)
(* Specifications.  Each one drives one part of the program and leaves the *)
(* variables of the other parts at rest.                                   *)
(***************************************************************************)
NoOp == [kind |-> "none", path |-> <<>>, val |-> Undefined, res |-> Undefined,
         threw |-> FALSE]

NoCall == [fn |-> "none", arg |-> Undefined, mapping |-> Undefined, res |-> Undefined]

NoMapOp ==
    [kind |-> "none", source |-> Undefined, target |-> Undefined, writes |-> <<>>,
     threw |-> FALSE]

PathAtRest == store = EmptyObj /\ op = NoOp /\ nOps = 0

PureAtRest == call = NoCall

MapAtRest == applicantProfile = EmptyObj /\ config = NoConfig /\ mappedForm = <<>> /\ mapOp = NoMapOp

FillAtRest ==
    /\ templatePDF = "none"
    /\ docs = [slot \in Slots |-> NoDoc]
    /\ loadedTemplate = NoDoc
    /\ calls = [c \in CallIds |-> IdleCall]
    /\ nFills = 0

BothAtRest == both = IdleBoth

LoadAtRest == loader = LoadStart(EmptyConfig)

ScratchAtRest == scratch = NoScratch

SchemaAtRest == loadedSchema = NoConfig /\ validated = NoValidation

ProfileAtRest ==
    /\ theProfile = Null
    /\ clock = 0
    /\ roundTrip = NoRoundTrip
    /\ completion = NoCompletion
    /\ nEdits = 0

LocaleAtRest == localization = NewManager(codeEn) /\ translated = NoTranslation

FieldAtRest == fieldCheck = NoFieldCheck

ValidityAtRest == validity = NoValidity

ListenAtRest == langCall = NoLangCall

WorkerAtRest ==
    /\ swCaches = InstalledCaches
    /\ swEvent = NoEvent
    /\ swPuts = {}
    /\ swLog = <<>>
    /\ nEvents = 0

DetectorAtRest ==
    /\ detector = NewDetector(<<>>, 1, Window(1920, 1080))
    /\ win = Window(1920, 1080)
    /\ timeMs = 0
    /\ resizeTimeout = NoTimer
    /\ burst = NoBurst
    /\ nResizes = 0

NamesAtRest == fieldNames = NoNames /\ rejected = {}

(* ---- dot paths ---- *)
InitPath ==
    /\ store \in InitialStores
    /\ op = NoOp
    /\ nOps = 0
    /\ lenientEngine = FALSE
    /\ PureAtRest
    /\ MapAtRest
    /\ FillAtRest
    /\ BothAtRest
    /\ NamesAtRest
    /\ LoadAtRest
    /\ ScratchAtRest
    /\ LocaleAtRest
    /\ ProfileAtRest
    /\ SchemaAtRest
    /\ FieldAtRest
    /\ ValidityAtRest
    /\ ListenAtRest
    /\ WorkerAtRest
    /\ DetectorAtRest

\* this.setNestedValue(profile, field.data_path, value)
SetNestedValue ==
    \E path \in PathUniverse, v \in WriteValues :
        /\ nOps < MaxWrites
        /\ store' = setNestedValue(store, path, v)
        /\ op' = [kind |-> "set", path |-> path, val |-> v, res |-> Undefined,
                  threw |-> setNestedValueThrows(store, path)]
        /\ nOps' = nOps + 1
        /\ UNCHANGED <<lenientEngine, pureVars, mapVars, fillVars, bothVars, namesVars, loadVars,
                   scratchVars, localeVars, profileVars, schemaVars, fieldVars,
                   validityVars, listenVars, workerVars, detectorVars>>

\* this.getNestedValue(profile, field.data_path)
GetNestedValue ==
    \E path \in PathUniverse :
        /\ op' = [kind |-> "get", path |-> path, val |-> Undefined,
                  res |-> getNestedValue(store, path), threw |-> FALSE]
        /\ UNCHANGED <<store, nOps, lenientEngine, pureVars, mapVars, fillVars, bothVars,
                   namesVars, loadVars, scratchVars, localeVars, profileVars,
                   schemaVars, fieldVars, validityVars, listenVars, workerVars,
                   detectorVars>>

NextPath == SetNestedValue \/ GetNestedValue

SpecPath == InitPath /\ [][NextPath]_vars

(* ---- the pure helpers ---- *)
InitPure ==
    /\ lenientEngine \in BOOLEAN
    /\ call = NoCall
    /\ PathAtRest
    /\ MapAtRest
    /\ FillAtRest
    /\ BothAtRest
    /\ NamesAtRest
    /\ LoadAtRest
    /\ ScratchAtRest
    /\ LocaleAtRest
    /\ ProfileAtRest
    /\ SchemaAtRest
    /\ FieldAtRest
    /\ ValidityAtRest
    /\ ListenAtRest
    /\ WorkerAtRest
    /\ DetectorAtRest

ApplyValueMapping ==
    \E value \in MappedValues, mapping \in Mappings :
        /\ call' = [fn |-> "applyValueMapping", arg |-> value, mapping |-> mapping,
                    res |-> applyValueMapping(value, mapping)]
        /\ UNCHANGED <<lenientEngine, pathVars, mapVars, fillVars, bothVars, namesVars, loadVars,
                   scratchVars, localeVars, profileVars, schemaVars, fieldVars,
                   validityVars, listenVars, workerVars, detectorVars>>

FormatDate ==
    \E date \in DateArguments :
        /\ call' = [fn |-> "formatDate", arg |-> date, mapping |-> Undefined,
                    res |-> Str(formatDate(date, lenientEngine))]
        /\ UNCHANGED <<lenientEngine, pathVars, mapVars, fillVars, bothVars, namesVars, loadVars,
                   scratchVars, localeVars, profileVars, schemaVars, fieldVars,
                   validityVars, listenVars, workerVars, detectorVars>>

\* formatDate applied to its own result
FormatDateAgain ==
    /\ call.fn = "formatDate"
    /\ call' = [fn |-> "formatDateAgain", arg |-> call.res, mapping |-> Undefined,
                res |-> Str(formatDate(call.res, lenientEngine))]
    /\ UNCHANGED <<lenientEngine, pathVars, mapVars, fillVars, bothVars, namesVars, loadVars,
                   scratchVars, localeVars, profileVars, schemaVars, fieldVars,
                   validityVars, listenVars, workerVars, detectorVars>>

NextPure == ApplyValueMapping \/ FormatDate \/ FormatDateAgain

SpecPure == InitPure /\ [][NextPure]_vars

(* ---- the mapper ---- *)
InitMapper ==
    /\ lenientEngine \in BOOLEAN
    /\ applicantProfile \in Profiles
    /\ config \in Schemas
    /\ mappedForm = <<>>
    /\ mapOp = NoMapOp
    /\ PathAtRest
    /\ PureAtRest
    /\ FillAtRest
    /\ BothAtRest
    /\ NamesAtRest
    /\ LoadAtRest
    /\ ScratchAtRest
    /\ LocaleAtRest
    /\ ProfileAtRest
    /\ SchemaAtRest
    /\ FieldAtRest
    /\ ValidityAtRest
    /\ ListenAtRest
    /\ WorkerAtRest
    /\ DetectorAtRest

\* mappedForm = fieldMapper.mapProfileToForm(profile)
MapProfileToForm ==
    /\ mappedForm' = mapProfileToForm(config, applicantProfile, lenientEngine)
    /\ mapOp' = [kind |-> "toForm", source |-> applicantProfile, target |-> Undefined,
                 writes |-> <<>>, threw |-> FALSE]
    /\ UNCHANGED <<applicantProfile, config, lenientEngine, pathVars, pureVars, fillVars,
                   bothVars, namesVars, loadVars, scratchVars, localeVars, profileVars,
                   schemaVars, fieldVars, validityVars, listenVars, workerVars,
                   detectorVars>>

\* fieldMapper.mapFormToProfile(mappedForm, target): the target is the profile
\* itself or a freshly created one
MapFormToProfile ==
    \E target \in {applicantProfile, EmptyObj} :
        LET r == mapFormToProfile(config, mappedForm, target, lenientEngine)
        IN  /\ mapOp.kind = "toForm"
            /\ applicantProfile' = r.profile
            /\ mapOp' = [kind |-> "toProfile", source |-> mapOp.source, target |-> target,
                         writes |-> r.writes, threw |-> r.threw]
            /\ UNCHANGED <<mappedForm, config, lenientEngine, pathVars, pureVars, fillVars, bothVars,
                   namesVars, loadVars, scratchVars, localeVars, profileVars,
                   schemaVars, fieldVars, validityVars, listenVars, workerVars,
                   detectorVars>>

NextMapper == MapProfileToForm \/ MapFormToProfile

SpecMapper == InitMapper /\ [][NextMapper]_vars

(* ---- the PDF processor ---- *)
InitFill ==
    /\ templatePDF = "none"
    /\ docs = [slot \in Slots |-> NoDoc]
    /\ loadedTemplate = NoDoc
    /\ calls = [c \in CallIds |-> IdleCall]
    /\ nFills = 0
    /\ lenientEngine = FALSE
    /\ PathAtRest
    /\ PureAtRest
    /\ MapAtRest
    /\ BothAtRest
    /\ NamesAtRest
    /\ LoadAtRest
    /\ ScratchAtRest
    /\ LocaleAtRest
    /\ ProfileAtRest
    /\ SchemaAtRest
    /\ FieldAtRest
    /\ ValidityAtRest
    /\ ListenAtRest
    /\ WorkerAtRest
    /\ DetectorAtRest

\* loadTemplate(templateSource): this.templatePDF = await PDFDocument.load(...);
\* the runs followed load the template once
LoadTemplate ==
    \E template \in Templates :
        /\ templatePDF = "none"
        /\ templatePDF' = "template"
        /\ docs' = [docs EXCEPT !["template"] = template]
        /\ loadedTemplate' = template
        /\ UNCHANGED <<calls, nFills, lenientEngine, pathVars, pureVars, mapVars, bothVars,
                   namesVars, loadVars, scratchVars, localeVars, profileVars,
                   schemaVars, fieldVars, validityVars, listenVars, workerVars,
                   detectorVars>>

\* fillForm(formData, options) without a template: throws before any await
FillFormNoTemplate(c) ==
    /\ calls[c].pc \in {"idle", "returned", "thrown"}
    /\ templatePDF = "none"
    /\ calls' = [calls EXCEPT ![c] = [IdleCall EXCEPT !.pc = "thrown"]]
    /\ rejected' = rejected \cup {"fillForm"}
    /\ UNCHANGED <<templatePDF, docs, loadedTemplate, nFills, lenientEngine,
                   pathVars, pureVars, mapVars, bothVars, fieldNames, loadVars,
                   scratchVars, localeVars, profileVars, schemaVars, fieldVars,
                   validityVars, listenVars, workerVars, detectorVars>>

\* fillForm(formData, options) up to its first await: this.templatePDF.save()
FillFormBegin(c) ==
    \E formData \in FormDatas, doFlatten \in BOOLEAN :
        /\ calls[c].pc \in {"idle", "returned", "thrown"}
        /\ templatePDF # "none"
        /\ nFills < MaxFills
        /\ calls' = [calls EXCEPT ![c] =
                        FillStarted(c, formData, doFlatten, docs[templatePDF])]
        /\ UNCHANGED <<templatePDF, docs, loadedTemplate, nFills, lenientEngine,
                       pathVars, pureVars, mapVars, bothVars, namesVars, loadVars,
                   scratchVars, localeVars, profileVars, schemaVars, fieldVars,
                   validityVars, listenVars, workerVars, detectorVars>>

\* the template's bytes are there: PDFDocument.load(bytes) is called and awaited
FillFormLoad(c) ==
    /\ calls[c].pc = "saving"
    /\ calls' = [calls EXCEPT ![c].pc = "loading"]
    /\ UNCHANGED <<templatePDF, docs, loadedTemplate, nFills, lenientEngine,
                   pathVars, pureVars, mapVars, bothVars, namesVars, loadVars,
                   scratchVars, localeVars, profileVars, schemaVars, fieldVars,
                   validityVars, listenVars, workerVars, detectorVars>>

\* the clone is there: fill it field by field, flatten, and call pdfDoc.save()
FillFormRun(c) ==
    LET cloned == [docs EXCEPT ![CloneTarget(c)] = calls[c].bytes]
        r == fillDocument(cloned[CloneTarget(c)], calls[c].formData, calls[c].doFlatten)
    IN  /\ calls[c].pc = "loading"
        /\ docs' = [cloned EXCEPT ![CloneTarget(c)] = r.doc]
        /\ calls' = [calls EXCEPT ![c].pc = "savingResult",
                                  ![c].filledFields = r.filledFields,
                                  ![c].failedFields = r.failedFields]
        /\ UNCHANGED <<templatePDF, loadedTemplate, nFills, lenientEngine,
                       pathVars, pureVars, mapVars, bothVars, namesVars, loadVars,
                   scratchVars, localeVars, profileVars, schemaVars, fieldVars,
                   validityVars, listenVars, workerVars, detectorVars>>

\* pdfDoc.save() is done: fillForm returns the bytes, and nothing refers to
\* the clone any more
FillFormReturn(c) ==
    /\ calls[c].pc = "savingResult"
    /\ calls' = [calls EXCEPT ![c].pc = "returned", ![c].bytes = NoDoc,
                              ![c].out = docs[CloneTarget(c)]]
    /\ docs' = [docs EXCEPT ![CloneTarget(c)] = NoDoc]
    /\ nFills' = nFills + 1
    /\ UNCHANGED <<templatePDF, loadedTemplate, lenientEngine,
                   pathVars, pureVars, mapVars, bothVars, namesVars, loadVars,
                   scratchVars, localeVars, profileVars, schemaVars, fieldVars,
                   validityVars, listenVars, workerVars, detectorVars>>

\* getFormFieldNames(): throws without a template, else the template's names
GetFormFieldNames ==
    /\ fieldNames' = getFormFieldNames(templatePDF, docs)
    /\ rejected' = IF templatePDF = "none" THEN rejected \cup {"getFormFieldNames"}
                   ELSE rejected
    /\ UNCHANGED <<fillVars, lenientEngine, pathVars, pureVars, mapVars, bothVars, loadVars,
                   scratchVars, localeVars, profileVars, schemaVars, fieldVars,
                   validityVars, listenVars, workerVars, detectorVars>>

\* one fillForm call at a time
NextFill ==
    \/ LoadTemplate
    \/ FillFormNoTemplate("A")
    \/ FillFormBegin("A")
    \/ FillFormLoad("A")
    \/ FillFormRun("A")
    \/ FillFormReturn("A")

SpecFill == InitFill /\ [][NextFill]_vars

(* ---- the processor with and without a template ---- *)
NextTemplate ==
    \/ LoadTemplate
    \/ GetFormFieldNames
    \/ FillFormNoTemplate("A")
    \/ FillFormBegin("A")
    \/ FillFormLoad("A")
    \/ FillFormRun("A")
    \/ FillFormReturn("A")

SpecTemplate == InitFill /\ [][NextTemplate]_vars

(* ---- two fillForm calls in flight ---- *)
\* fillForm(formData, options) up to its first await, while the other call
\* may be at any of its awaits
FillFormOverlapping(c) ==
    \E formData \in OverlapForms, doFlatten \in BOOLEAN :
        /\ calls[c].pc \in {"idle", "returned", "thrown"}
        /\ templatePDF # "none"
        /\ nFills < MaxFills
        /\ calls' = [calls EXCEPT ![c] =
                        FillStarted(c, formData, doFlatten, docs[templatePDF])]
        /\ UNCHANGED <<templatePDF, docs, loadedTemplate, nFills, lenientEngine,
                       pathVars, pureVars, mapVars, bothVars, namesVars, loadVars,
                       scratchVars, localeVars, profileVars, schemaVars, fieldVars,
                   validityVars, listenVars, workerVars, detectorVars>>

\* the awaits of the two calls resolve in any order
NextOverlap ==
    \/ LoadTemplate
    \/ FillFormOverlapping("A")
    \/ FillFormLoad("A")
    \/ FillFormRun("A")
    \/ FillFormReturn("A")
    \/ FillFormOverlapping("B")
    \/ FillFormLoad("B")
    \/ FillFormRun("B")
    \/ FillFormReturn("B")

SpecOverlap == InitFill /\ [][NextOverlap]_vars

(* ---- both versions ---- *)
\* generateBothVersions(formData) up to the first await of its first fillForm;
\* without a template that fillForm throws and the call is rejected
GenerateBothVersions ==
    \E formData \in FormDatas :
        /\ both.pc \in {"idle", "returned", "thrown"}
        /\ calls["A"].pc \in {"idle", "returned", "thrown"}
        /\ nFills + 2 <= MaxFills \/ templatePDF = "none"
        /\ IF templatePDF = "none"
           THEN /\ both' = [IdleBoth EXCEPT !.pc = "thrown"]
                /\ calls' = [calls EXCEPT !["A"] = [IdleCall EXCEPT !.pc = "thrown"]]
           ELSE /\ both' = [IdleBoth EXCEPT !.pc = "editable", !.formData = formData]
                /\ calls' = [calls EXCEPT !["A"] =
                                FillStarted("A", formData, FALSE, docs[templatePDF])]
        /\ rejected' = IF templatePDF = "none" THEN rejected \cup {"fillForm"}
                       ELSE rejected
        /\ UNCHANGED <<templatePDF, docs, loadedTemplate, nFills, lenientEngine,
                       pathVars, pureVars, mapVars, fieldNames, loadVars, scratchVars,
                   localeVars, profileVars, schemaVars, fieldVars, validityVars,
                   listenVars, workerVars, detectorVars>>

\* the editable version is there: generatePDF(formData, {flatten: true}) starts
GenerateFlattened ==
    /\ both.pc = "editable"
    /\ calls["A"].pc = "returned"
    /\ both' = [both EXCEPT !.pc = "flattened", !.editable = calls["A"].out]
    /\ calls' = [calls EXCEPT !["A"] =
                    FillStarted("A", both.formData, TRUE, docs[templatePDF])]
    /\ UNCHANGED <<templatePDF, docs, loadedTemplate, nFills, lenientEngine,
                   pathVars, pureVars, mapVars, namesVars, loadVars, scratchVars,
                   localeVars, profileVars, schemaVars, fieldVars, validityVars,
                   listenVars, workerVars, detectorVars>>

\* return { editable, flattened }
GenerateBothReturn ==
    /\ both.pc = "flattened"
    /\ calls["A"].pc = "returned"
    /\ both' = [both EXCEPT !.pc = "returned", !.flattened = calls["A"].out]
    /\ UNCHANGED <<fillVars, lenientEngine, pathVars, pureVars, mapVars, namesVars, loadVars,
                   scratchVars, localeVars, profileVars, schemaVars, fieldVars,
                   validityVars, listenVars, workerVars, detectorVars>>

NextBoth ==
    \/ LoadTemplate
    \/ GenerateBothVersions
    \/ FillFormLoad("A")
    \/ FillFormRun("A")
    \/ FillFormReturn("A")
    \/ GenerateFlattened
    \/ GenerateBothReturn

SpecBoth == InitFill /\ [][NextBoth]_vars

(* ---- schema loading ---- *)
\* new FieldMapper(config): the constructor has run loadConfig to its first await
InitLoader ==
    /\ config \in {NoConfig, OnePart(<< Desc(f1, pathV, nStatus, <<>>, "Text Input", Undefined) >>)}
    /\ loader = LoadStart(config)
    /\ applicantProfile \in LoaderProfiles
    /\ mappedForm = <<>>
    /\ mapOp = NoMapOp
    /\ lenientEngine = FALSE
    /\ PathAtRest
    /\ PureAtRest
    /\ FillAtRest
    /\ BothAtRest
    /\ NamesAtRest
    /\ ScratchAtRest
    /\ LocaleAtRest
    /\ ProfileAtRest
    /\ SchemaAtRest
    /\ FieldAtRest
    /\ ValidityAtRest
    /\ ListenAtRest
    /\ WorkerAtRest
    /\ DetectorAtRest

\* fetch(path) rejects, or resolves with a response that is not ok
FetchFails ==
    \E outcome \in {"rejected", "notOk"} :
        /\ loader.pc = "fetching"
        /\ loader' = CandidateFailed(loader, config, outcome).loader
        /\ config' = CandidateFailed(loader, config, outcome).config
        /\ UNCHANGED <<applicantProfile, mappedForm, mapOp, lenientEngine, pathVars, pureVars,
                       fillVars, bothVars, namesVars, scratchVars, localeVars,
                   profileVars, schemaVars, fieldVars, validityVars, listenVars,
                   workerVars, detectorVars>>

\* fetch(path) resolves with response.ok: response.json() is awaited
FetchOk ==
    /\ loader.pc = "fetching"
    /\ loader' = [loader EXCEPT !.pc = "parsing"]
    /\ UNCHANGED <<mapVars, lenientEngine, pathVars, pureVars, fillVars, bothVars, namesVars,
                   scratchVars, localeVars, profileVars, schemaVars, fieldVars,
                   validityVars, listenVars, workerVars, detectorVars>>

\* response.json() rejects
JsonFails ==
    /\ loader.pc = "parsing"
    /\ loader' = CandidateFailed(loader, config, "unparseable").loader
    /\ config' = CandidateFailed(loader, config, "unparseable").config
    /\ UNCHANGED <<applicantProfile, mappedForm, mapOp, lenientEngine, pathVars, pureVars,
                   fillVars, bothVars, namesVars, scratchVars, localeVars, profileVars,
                   schemaVars, fieldVars, validityVars, listenVars, workerVars,
                   detectorVars>>

\* response.json() resolves: this.config = body; buildMapping(); break
JsonParsed ==
    \E body \in JsonBodies :
        /\ loader.pc = "parsing"
        /\ config' = body
        /\ loader' = [Settled(loader, "loaded") EXCEPT !.pc = "done"]
        /\ UNCHANGED <<applicantProfile, mappedForm, mapOp, lenientEngine, pathVars, pureVars,
                       fillVars, bothVars, namesVars, scratchVars, localeVars,
                   profileVars, schemaVars, fieldVars, validityVars, listenVars,
                   workerVars, detectorVars>>

NextLoader ==
    \/ FetchFails
    \/ FetchOk
    \/ JsonFails
    \/ JsonParsed
    \/ MapProfileToForm

SpecLoader == InitLoader /\ [][NextLoader]_vars

(* ---- a document from scratch ---- *)
\* createPDFFromScratch(formData) up to await PDFDocument.create()
CreatePDFFromScratch ==
    \E formData \in ScratchForms :
        /\ scratch.pc \in {"idle", "returned"}
        /\ scratch' = [NoScratch EXCEPT !.pc = "creating", !.formData = formData]
        /\ UNCHANGED <<fillVars, lenientEngine, pathVars, pureVars, mapVars, bothVars,
                       namesVars, loadVars, localeVars, profileVars, schemaVars,
                   fieldVars, validityVars, listenVars, workerVars, detectorVars>>

\* the document is there: page, title, the loop over the fields, pdfDoc.save()
ScratchDraw ==
    /\ scratch.pc = "creating"
    /\ scratch' = [scratch EXCEPT !.pc = "saving",
                                  !.pdfDoc = DrawLines(TitledDocument, scratch.formData)]
    /\ UNCHANGED <<fillVars, lenientEngine, pathVars, pureVars, mapVars, bothVars,
                   namesVars, loadVars, localeVars, profileVars, schemaVars, fieldVars,
                   validityVars, listenVars, workerVars, detectorVars>>

\* return new Blob([pdfBytes])
ScratchReturn ==
    /\ scratch.pc = "saving"
    /\ scratch' = [scratch EXCEPT !.pc = "returned", !.out = scratch.pdfDoc]
    /\ UNCHANGED <<fillVars, lenientEngine, pathVars, pureVars, mapVars, bothVars,
                   namesVars, loadVars, localeVars, profileVars, schemaVars, fieldVars,
                   validityVars, listenVars, workerVars, detectorVars>>

NextScratch == CreatePDFFromScratch \/ ScratchDraw \/ ScratchReturn

SpecScratch == InitFill /\ [][NextScratch]_vars

(* ---- translations ---- *)
\* the module's own instance is new LocalizationManager('en'); a page may
\* construct one with 'zh'
InitLocale ==
    /\ localization \in {NewManager(codeEn), NewManager(codeZh)}
    /\ translated = NoTranslation
    /\ lenientEngine = FALSE
    /\ PathAtRest
    /\ PureAtRest
    /\ MapAtRest
    /\ FillAtRest
    /\ BothAtRest
    /\ NamesAtRest
    /\ LoadAtRest
    /\ ScratchAtRest
    /\ ProfileAtRest
    /\ SchemaAtRest
    /\ FieldAtRest
    /\ ValidityAtRest
    /\ ListenAtRest
    /\ WorkerAtRest
    /\ DetectorAtRest

\* t(key)
Translate ==
    \E key \in TranslationKeys :
        /\ localization' = t(localization, key).manager
        /\ translated' = [key |-> key, language |-> localization.currentLanguage,
                          res |-> t(localization, key).res]
        /\ UNCHANGED <<lenientEngine, pathVars, pureVars, mapVars, fillVars, bothVars,
                       namesVars, loadVars, scratchVars, profileVars, schemaVars,
                   fieldVars, validityVars, listenVars, workerVars, detectorVars>>

\* setLanguage(language)
SetLanguage ==
    \E language \in SUPPORTED_LANGUAGES \cup {codeFr} :
        LET r == setLanguageCall(localization, language)
        IN  /\ localization' = setLanguage(localization, language)
            /\ translated' = NoTranslation
            /\ langCall' = [done |-> TRUE, language |-> language,
                            before |-> localization.currentLanguage,
                            listeners |-> localization.listeners,
                            returned |-> r.returned, calls |-> r.calls, saved |-> r.saved,
                            changed |-> setLanguage(localization, language) # localization]
            /\ UNCHANGED <<lenientEngine, pathVars, pureVars, mapVars, fillVars, bothVars,
                           namesVars, loadVars, scratchVars, profileVars, schemaVars,
                           fieldVars, validityVars, workerVars, detectorVars>>

\* clearMissingTranslations()
ClearMissingTranslations ==
    /\ localization' = [localization EXCEPT !.missingTranslations = {}]
    /\ translated' = NoTranslation
    /\ UNCHANGED <<lenientEngine, pathVars, pureVars, mapVars, fillVars, bothVars,
                   namesVars, loadVars, scratchVars, profileVars, schemaVars,
                   fieldVars, validityVars, listenVars, workerVars, detectorVars>>

\* clearCache()
ClearCache ==
    /\ localization' = [localization EXCEPT !.translationCache = EmptyMap]
    /\ translated' = NoTranslation
    /\ UNCHANGED <<lenientEngine, pathVars, pureVars, mapVars, fillVars, bothVars,
                   namesVars, loadVars, scratchVars, profileVars, schemaVars,
                   fieldVars, validityVars, listenVars, workerVars, detectorVars>>

NextLocale ==
    \/ Translate
    \/ SetLanguage
    \/ ClearMissingTranslations
    \/ ClearCache

SpecLocale == InitLocale /\ [][NextLocale]_vars

(* ---- the applicant profile ---- *)
InitProfile ==
    /\ theProfile \in { NewProfile(0, random) : random \in Randoms }
    /\ clock = 0
    /\ roundTrip = NoRoundTrip
    /\ completion = NoCompletion
    /\ nEdits = 0
    /\ lenientEngine = FALSE
    /\ PathAtRest
    /\ PureAtRest
    /\ MapAtRest
    /\ FillAtRest
    /\ BothAtRest
    /\ NamesAtRest
    /\ LoadAtRest
    /\ ScratchAtRest
    /\ LocaleAtRest
    /\ SchemaAtRest
    /\ FieldAtRest
    /\ ValidityAtRest
    /\ ListenAtRest
    /\ WorkerAtRest
    /\ DetectorAtRest

\* time passes
Tick ==
    /\ clock < MaxClock
    /\ clock' = clock + 1
    /\ UNCHANGED <<theProfile, roundTrip, completion, nEdits, lenientEngine, pathVars,
                   pureVars, mapVars, fillVars, bothVars, namesVars, loadVars, scratchVars,
                   localeVars, schemaVars, fieldVars, validityVars, listenVars,
                   workerVars, detectorVars>>

\* p.fromJSON(data)
FromJSON ==
    \E data \in ImportDatas :
        /\ nEdits < MaxEdits
        /\ theProfile' = fromJSON(theProfile, data, clock)
        /\ nEdits' = nEdits + 1
        /\ roundTrip' = NoRoundTrip
        /\ completion' = NoCompletion
        /\ UNCHANGED <<clock, lenientEngine, pathVars, pureVars,
                       mapVars, fillVars, bothVars, namesVars, loadVars, scratchVars,
                       localeVars, schemaVars, fieldVars, validityVars, listenVars,
                   workerVars, detectorVars>>

\* a field of p is set along its path
SetProfileField ==
    \E edit \in ProfileEdits :
        /\ nEdits < MaxEdits
        /\ theProfile' = setNestedValue(theProfile, edit[1], edit[2])
        /\ nEdits' = nEdits + 1
        /\ roundTrip' = NoRoundTrip
        /\ completion' = NoCompletion
        /\ UNCHANGED <<clock, lenientEngine, pathVars, pureVars,
                       mapVars, fillVars, bothVars, namesVars, loadVars, scratchVars,
                       localeVars, schemaVars, fieldVars, validityVars, listenVars,
                   workerVars, detectorVars>>

\* p.addNote(note)
AddNote ==
    /\ nEdits < MaxEdits
    /\ theProfile' = addNote(theProfile, sNote, clock)
    /\ nEdits' = nEdits + 1
    /\ roundTrip' = NoRoundTrip
    /\ completion' = NoCompletion
    /\ UNCHANGED <<clock, lenientEngine, pathVars, pureVars,
                   mapVars, fillVars, bothVars, namesVars, loadVars, scratchVars,
                   localeVars, schemaVars, fieldVars, validityVars, listenVars,
                   workerVars, detectorVars>>

\* p.reset(): Object.assign(this, new ApplicantProfile())
ResetProfile ==
    \E random \in Randoms :
        /\ nEdits < MaxEdits
        /\ theProfile' = NewProfile(clock, random)
        /\ nEdits' = nEdits + 1
        /\ roundTrip' = NoRoundTrip
        /\ completion' = NoCompletion
        /\ UNCHANGED <<clock, lenientEngine, pathVars, pureVars,
                       mapVars, fillVars, bothVars, namesVars, loadVars, scratchVars,
                       localeVars, schemaVars, fieldVars, validityVars, listenVars,
                   workerVars, detectorVars>>

\* p.calculateCompletionPercentage()
CalculateCompletionPercentage ==
    LET r == calculateCompletionPercentage(theProfile)
    IN  /\ theProfile' = r.profile
        /\ completion' = [returned |-> r.percentage,
                          stored |-> GetProp(GetProp(r.profile, kMetadata),
                                             kCompletionPercentage)]
        /\ roundTrip' = NoRoundTrip
        /\ UNCHANGED <<clock, nEdits, lenientEngine, pathVars, pureVars,
                       mapVars, fillVars, bothVars, namesVars, loadVars, scratchVars,
                       localeVars, schemaVars, fieldVars, validityVars, listenVars,
                   workerVars, detectorVars>>

\* q = new ApplicantProfile(); q.fromJSON(p.toJSON())
ExportImport ==
    \E random \in Randoms :
        /\ roundTrip' = [p |-> theProfile,
                         q |-> fromJSON(NewProfile(clock, random), toJSON(theProfile), clock)]
        /\ UNCHANGED <<theProfile, clock, completion, nEdits, lenientEngine, pathVars,
                       pureVars, mapVars, fillVars, bothVars, namesVars, loadVars,
                       scratchVars, localeVars, schemaVars, fieldVars, validityVars,
                   listenVars, workerVars, detectorVars>>

NextProfile ==
    \/ Tick
    \/ FromJSON
    \/ SetProfileField
    \/ AddNote
    \/ ResetProfile
    \/ CalculateCompletionPercentage
    \/ ExportImport

SpecProfile == InitProfile /\ [][NextProfile]_vars

(* ---- the schema under the mapper and the validator ---- *)
InitSchema ==
    /\ config \in RuledSchemas
    /\ loadedSchema = config
    /\ applicantProfile \in ValidatedProfiles
    /\ mappedForm = <<>>
    /\ mapOp = NoMapOp
    /\ validated = NoValidation
    /\ lenientEngine = FALSE
    /\ PathAtRest
    /\ PureAtRest
    /\ FillAtRest
    /\ BothAtRest
    /\ NamesAtRest
    /\ LoadAtRest
    /\ ScratchAtRest
    /\ LocaleAtRest
    /\ ProfileAtRest
    /\ FieldAtRest
    /\ ValidityAtRest
    /\ ListenAtRest
    /\ WorkerAtRest
    /\ DetectorAtRest

\* validator.validateSection(profile, part) on a part of the schema, the
\* validator reading the language of the localization manager
ValidateSection ==
    \E i \in 1..Len(config.parts) :
        LET r == validateSection(applicantProfile, config.parts[i],
                                 localization.currentLanguage = codeZh)
        IN  /\ config' = [config EXCEPT !.parts[i].fields = r.fields]
            /\ validated' = [isValid |-> r.isValid, errors |-> r.errors,
                             general |-> r.general, raised |-> r.raised, part |-> i]
            /\ UNCHANGED <<applicantProfile, mappedForm, mapOp, loadedSchema, lenientEngine,
                           pathVars, pureVars, fillVars, bothVars, namesVars, loadVars,
                           scratchVars, localeVars, profileVars, fieldVars,
                   validityVars, listenVars, workerVars, detectorVars>>

NextSchema ==
    \/ MapProfileToForm
    \/ MapFormToProfile
    \/ ValidateSection
    \/ SetLanguage

SpecSchema == InitSchema /\ [][NextSchema]_vars

(* ---- the validator on single fields ---- *)
InitField ==
    /\ fieldCheck = NoFieldCheck
    /\ lenientEngine = FALSE
    /\ PathAtRest
    /\ PureAtRest
    /\ MapAtRest
    /\ FillAtRest
    /\ BothAtRest
    /\ NamesAtRest
    /\ LoadAtRest
    /\ ScratchAtRest
    /\ LocaleAtRest
    /\ ProfileAtRest
    /\ SchemaAtRest
    /\ ValidityAtRest
    /\ ListenAtRest
    /\ WorkerAtRest
    /\ DetectorAtRest

\* validator.validateField(fieldId, value, rules); isZh is read from the
\* localization manager
ValidateField ==
    \E fieldId \in CheckedFieldIds, value \in CheckedValues, rules \in CheckedRules :
        LET isZh == localization.currentLanguage = codeZh
        IN  /\ fieldCheck' = [done |-> TRUE, fieldId |-> fieldId, value |-> value,
                              rules |-> rules, isZh |-> isZh,
                              res |-> validateField(fieldId, value, rules, isZh)]
            /\ UNCHANGED <<lenientEngine, pathVars, pureVars, mapVars, fillVars, bothVars,
                           namesVars, loadVars, scratchVars, localeVars, profileVars,
                           schemaVars, validityVars, listenVars, workerVars,
                   detectorVars>>

NextField == ValidateField \/ SetLanguage

SpecField == InitField /\ [][NextField]_vars

(* ---- the applicant profile under its validate methods ---- *)
InitValidity ==
    /\ theProfile \in { NewProfile(0, random) : random \in Randoms }
    /\ clock = 0
    /\ roundTrip = NoRoundTrip
    /\ completion = NoCompletion
    /\ nEdits = 0
    /\ validity = NoValidity
    /\ lenientEngine = FALSE
    /\ PathAtRest
    /\ PureAtRest
    /\ MapAtRest
    /\ FillAtRest
    /\ BothAtRest
    /\ NamesAtRest
    /\ LoadAtRest
    /\ ScratchAtRest
    /\ LocaleAtRest
    /\ SchemaAtRest
    /\ FieldAtRest
    /\ ListenAtRest
    /\ WorkerAtRest
    /\ DetectorAtRest

\* p.fromJSON(data) with the eligibility answers
ImportEligibility ==
    \E data \in EligibilityDatas :
        /\ nEdits < MaxEdits
        /\ theProfile' = fromJSON(theProfile, data, clock)
        /\ nEdits' = nEdits + 1
        /\ UNCHANGED <<clock, roundTrip, completion, validity, lenientEngine, pathVars,
                       pureVars, mapVars, fillVars, bothVars, namesVars, loadVars,
                       scratchVars, localeVars, schemaVars, fieldVars, listenVars,
                   workerVars, detectorVars>>

\* p.validatePersonalInfo(), p.validateImmigrationDetails(),
\* p.validateEligibility() or p.validateAll()
ValidateProfile ==
    \E method \in ValidateMethods :
        /\ validity' = [method |-> method, of |-> theProfile,
                        res |-> Validate(method, theProfile)]
        /\ UNCHANGED <<profileVars, lenientEngine, pathVars, pureVars, mapVars, fillVars,
                       bothVars, namesVars, loadVars, scratchVars, localeVars, schemaVars,
                       fieldVars, listenVars, workerVars, detectorVars>>

NextValidity ==
    \/ FromJSON
    \/ ImportEligibility
    \/ ResetProfile
    \/ ValidateProfile

SpecValidity == InitValidity /\ [][NextValidity]_vars

(* ---- the localization manager and its listeners ---- *)
\* localization.onChange(callback)
OnChange ==
    \E callback \in Callbacks :
        /\ Len(localization.listeners) < MaxListeners
        /\ localization' = onChange(localization, callback)
        /\ UNCHANGED <<translated, langCall, lenientEngine, pathVars, pureVars, mapVars,
                       fillVars, bothVars, namesVars, loadVars, scratchVars, profileVars,
                       schemaVars, fieldVars, validityVars, workerVars, detectorVars>>

\* localization.offChange(callback)
OffChange ==
    \E callback \in Callbacks :
        /\ localization' = offChange(localization, callback)
        /\ UNCHANGED <<translated, langCall, lenientEngine, pathVars, pureVars, mapVars,
                       fillVars, bothVars, namesVars, loadVars, scratchVars, profileVars,
                       schemaVars, fieldVars, validityVars, workerVars, detectorVars>>

NextListen == SetLanguage \/ OnChange \/ OffChange

SpecListen == InitLocale /\ [][NextListen]_vars

(* ---- the service worker ---- *)
InitWorker ==
    /\ swCaches = InstalledCaches
    /\ swEvent = NoEvent
    /\ swPuts = {}
    /\ swLog = <<>>
    /\ nEvents = 0
    /\ lenientEngine = FALSE
    /\ PathAtRest
    /\ PureAtRest
    /\ MapAtRest
    /\ FillAtRest
    /\ BothAtRest
    /\ NamesAtRest
    /\ LoadAtRest
    /\ ScratchAtRest
    /\ LocaleAtRest
    /\ ProfileAtRest
    /\ SchemaAtRest
    /\ FieldAtRest
    /\ ValidityAtRest
    /\ ListenAtRest
    /\ DetectorAtRest

\* the fetch listener: it picks the strategy and starts it; cacheFirst and
\* staleWhileRevalidate start with caches.match(request), networkFirst and
\* networkOnly with fetch(request)
FetchEvent ==
    \E request \in Requests :
        LET strategy == fetchStrategy(request)
        IN  /\ swEvent.pc \in {"idle", "done"}
            /\ nEvents < MaxEvents
            /\ nEvents' = nEvents + 1
            /\ swEvent' = [NoEvent EXCEPT
                              !.request = request,
                              !.strategy = strategy,
                              !.pc = CASE strategy = "none" -> "done"
                                       [] strategy \in {"cacheFirst", "staleWhileRevalidate"}
                                            -> "matching"
                                       [] OTHER -> "fetching"]
            /\ UNCHANGED <<swCaches, swPuts, swLog>>
            /\ UNCHANGED <<lenientEngine, pathVars, pureVars, mapVars, fillVars, bothVars,
                       namesVars, loadVars, scratchVars, localeVars, profileVars,
                       schemaVars, fieldVars, validityVars, listenVars, detectorVars>>

\* caches.match(request) resolves: cacheFirst answers with a hit and is
\* done; staleWhileRevalidate answers with a hit and fetches all the same
CacheMatched ==
    LET cached == cachesMatch(swCaches, swEvent.request.path)
        hit == cached # NoResponse
    IN  /\ swEvent.pc = "matching"
        /\ swEvent' = [swEvent EXCEPT
                          !.cached = cached,
                          !.answer = IF hit THEN cached ELSE @,
                          !.answered = hit,
                          !.pc = IF hit /\ swEvent.strategy = "cacheFirst"
                                 THEN "done" ELSE "fetching"]
        /\ UNCHANGED <<swCaches, swPuts, swLog, nEvents>>
        /\ UNCHANGED <<lenientEngine, pathVars, pureVars, mapVars, fillVars, bothVars,
                       namesVars, loadVars, scratchVars, localeVars, profileVars,
                       schemaVars, fieldVars, validityVars, listenVars, detectorVars>>

\* fetch(request) resolves with a response; the three GET strategies start
\* caches.open(...).then(cache => cache.put(request, responseClone)) for a
\* response that passes the test, and the response is the answer unless
\* the cached one was given already
NetworkResponds ==
    \E outcome \in NetworkResponses :
        LET response == Response(outcome[1], outcome[2], nEvents)
        IN  /\ swEvent.pc = "fetching"
            /\ swEvent' = [swEvent EXCEPT
                              !.pc = "done",
                              !.answer = IF swEvent.answered THEN @ ELSE response,
                              !.answered = TRUE]
            /\ swPuts' = IF swEvent.strategy # "networkOnly" /\ cacheable(response)
                          THEN swPuts \cup {[cache |-> StrategyCache(swEvent.strategy),
                                              request |-> swEvent.request,
                                              response |-> response]}
                          ELSE swPuts
            /\ UNCHANGED <<swCaches, swLog, nEvents>>
            /\ UNCHANGED <<lenientEngine, pathVars, pureVars, mapVars, fillVars, bothVars,
                       namesVars, loadVars, scratchVars, localeVars, profileVars,
                       schemaVars, fieldVars, validityVars, listenVars, detectorVars>>

\* fetch(request) rejects: cacheFirst and staleWhileRevalidate fall back to
\* the offline page, networkFirst to the cached request and then the offline
\* page, networkOnly to a 503 response; a staleWhileRevalidate that has
\* answered from the cache leaves the rejection unhandled
NetworkFails ==
    LET offline == cachesMatch(swCaches, pOffline)
        fallback ==
            CASE swEvent.strategy = "networkOnly" -> Unavailable
              [] swEvent.strategy = "networkFirst" ->
                    IF cachesMatch(swCaches, swEvent.request.path) # NoResponse
                    THEN cachesMatch(swCaches, swEvent.request.path)
                    ELSE offline
              [] OTHER -> offline
    IN  /\ swEvent.pc = "fetching"
        /\ swEvent' = [swEvent EXCEPT
                          !.pc = "done",
                          !.failed = TRUE,
                          !.answer = IF swEvent.answered THEN @ ELSE fallback,
                          !.answered = TRUE]
        /\ UNCHANGED <<swCaches, swPuts, swLog, nEvents>>
        /\ UNCHANGED <<lenientEngine, pathVars, pureVars, mapVars, fillVars, bothVars,
                       namesVars, loadVars, scratchVars, localeVars, profileVars,
                       schemaVars, fieldVars, validityVars, listenVars, detectorVars>>

\* a cache.put lands
CachePut ==
    \E put \in swPuts :
        /\ swCaches' = cachePut(swCaches, put)
        /\ swPuts' = swPuts \ {put}
        /\ swLog' = Append(swLog, put)
        /\ UNCHANGED <<swEvent, nEvents>>
        /\ UNCHANGED <<lenientEngine, pathVars, pureVars, mapVars, fillVars, bothVars,
                       namesVars, loadVars, scratchVars, localeVars, profileVars,
                       schemaVars, fieldVars, validityVars, listenVars, detectorVars>>

NextWorker ==
    \/ FetchEvent
    \/ CacheMatched
    \/ NetworkResponds
    \/ NetworkFails
    \/ CachePut

SpecWorker == InitWorker /\ [][NextWorker]_vars

(* ---- the device detector ---- *)
InitDetector ==
    /\ \E ua \in UserAgents, w \in Windows :
          /\ detector = NewDetector(ua, 1, w)
          /\ win = w
    /\ timeMs = 0
    /\ resizeTimeout = NoTimer
    /\ burst = NoBurst
    /\ nResizes = 0
    /\ lenientEngine = FALSE
    /\ PathAtRest
    /\ PureAtRest
    /\ MapAtRest
    /\ FillAtRest
    /\ BothAtRest
    /\ NamesAtRest
    /\ LoadAtRest
    /\ ScratchAtRest
    /\ LocaleAtRest
    /\ ProfileAtRest
    /\ SchemaAtRest
    /\ FieldAtRest
    /\ ValidityAtRest
    /\ ListenAtRest
    /\ WorkerAtRest

\* a timer that is due runs before anything else at that instant
TimerDue == resizeTimeout # NoTimer /\ timeMs >= resizeTimeout

\* the window is resized and the resize listener runs:
\* clearTimeout(resizeTimeout); resizeTimeout = setTimeout(..., 250)
Resize ==
    \E w \in Windows \ {win} :
        /\ ~TimerDue
        /\ nResizes < MaxResizes
        /\ timeMs + ResizeDelay <= MaxTime
        /\ win' = w
        /\ resizeTimeout' = timeMs + ResizeDelay
        /\ burst' = IF resizeTimeout = NoTimer
                     THEN [NoBurst EXCEPT !.events = 1, !.last = timeMs]
                     ELSE [burst EXCEPT !.events = @ + 1, !.last = timeMs]
        /\ nResizes' = nResizes + 1
        /\ UNCHANGED <<detector, timeMs>>
        /\ UNCHANGED <<lenientEngine, pathVars, pureVars, mapVars, fillVars, bothVars,
                   namesVars, loadVars, scratchVars, localeVars, profileVars,
                   schemaVars, fieldVars, validityVars, listenVars, workerVars>>

\* the callback of the resize timer
ResizeTimeout ==
    LET r == resizeCallback(detector, win)
    IN  /\ TimerDue
        /\ detector' = r.detector
        /\ resizeTimeout' = NoTimer
        /\ burst' = [burst EXCEPT !.detections = @ + 1, !.firedAt = timeMs,
                                  !.previousType = detector.deviceType,
                                  !.calls = r.calls, !.listeners = detector.listeners]
        /\ UNCHANGED <<win, timeMs, nResizes>>
        /\ UNCHANGED <<lenientEngine, pathVars, pureVars, mapVars, fillVars, bothVars,
                   namesVars, loadVars, scratchVars, localeVars, profileVars,
                   schemaVars, fieldVars, validityVars, listenVars, workerVars>>

\* the device is turned and the orientationchange listener runs
OrientationChange ==
    LET w == Window(win.height, win.width)
    IN  /\ ~TimerDue
        /\ win' = w
        /\ detector' = orientationCallback(detector, w).detector
        /\ UNCHANGED <<timeMs, resizeTimeout, burst, nResizes>>
        /\ UNCHANGED <<lenientEngine, pathVars, pureVars, mapVars, fillVars, bothVars,
                   namesVars, loadVars, scratchVars, localeVars, profileVars,
                   schemaVars, fieldVars, validityVars, listenVars, workerVars>>

\* detector.subscribe(callback), of a callback that is not subscribed
Subscribe ==
    \E callback \in Subscribers :
        /\ \A i \in DOMAIN detector.listeners : detector.listeners[i] # callback
        /\ detector' = [detector EXCEPT !.listeners = Append(@, callback)]
        /\ UNCHANGED <<win, timeMs, resizeTimeout, burst, nResizes>>
        /\ UNCHANGED <<lenientEngine, pathVars, pureVars, mapVars, fillVars, bothVars,
                   namesVars, loadVars, scratchVars, localeVars, profileVars,
                   schemaVars, fieldVars, validityVars, listenVars, workerVars>>

\* the function subscribe returned is called
Unsubscribe ==
    \E callback \in Subscribers :
        /\ detector' = [detector EXCEPT
                           !.listeners = SelectSeq(@, LAMBDA listener : listener # callback)]
        /\ UNCHANGED <<win, timeMs, resizeTimeout, burst, nResizes>>
        /\ UNCHANGED <<lenientEngine, pathVars, pureVars, mapVars, fillVars, bothVars,
                   namesVars, loadVars, scratchVars, localeVars, profileVars,
                   schemaVars, fieldVars, validityVars, listenVars, workerVars>>

\* time passes, up to the instant the pending timer is due
AdvanceTime ==
    LET next == IF timeMs + TickMs > MaxTime THEN MaxTime ELSE timeMs + TickMs
    IN  /\ ~TimerDue
        /\ timeMs < MaxTime
        /\ timeMs' = IF resizeTimeout # NoTimer /\ resizeTimeout < next
                      THEN resizeTimeout ELSE next
        /\ UNCHANGED <<detector, win, resizeTimeout, burst, nResizes>>
        /\ UNCHANGED <<lenientEngine, pathVars, pureVars, mapVars, fillVars, bothVars,
                   namesVars, loadVars, scratchVars, localeVars, profileVars,
                   schemaVars, fieldVars, validityVars, listenVars, workerVars>>

NextDetector ==
    \/ Resize
    \/ ResizeTimeout
    \/ OrientationChange
    \/ Subscribe
    \/ Unsubscribe
    \/ AdvanceTime

SpecDetector == InitDetector /\ [][NextDetector]_vars

\* the clock advances and a timer that is due runs
SpecDetectorLive == SpecDetector /\ WF_vars(AdvanceTime) /\ WF_vars(ResizeTimeout)

====
